---------------------------- MODULE Spec2Model ----------------------------
(***************************************************************************)
(* A model of the identity derivation (seed phrase -> vault hash -> share  *)
(* hash) and of the position helpers (calculateInsertPosition,             *)
(* updatePositions) of the watchlist application.                          *)
(*                                                                         *)
(* Strings are sequences of UTF-16 code units (naturals); byte arrays are  *)
(* sequences of naturals below 256.  A 32-bit word of the digest algorithm *)
(* is a pair <<hi, lo>> of 16-bit halves.  A JS number that holds a        *)
(* position is an exact dyadic rational [n |-> numerator, d |-> 2^k].      *)
(***************************************************************************)
EXTENDS Integers, Sequences, FiniteSets, TLC

VARIABLES
    words,        \* the words the user means to type (input of the hash session)
    calls,        \* the hashSeedPhrase calls made so far: [phrase, result]
    vaultHash,    \* the argument of the first deriveShareHash call
    shares,       \* the results of deriveShareHash, each applied to the previous one
    genPhrase,    \* generateSeedPhrase: the returned string, or None
    genResult,    \* the outcome of hashSeedPhrase on the generated phrase, or None
    sortedItems,  \* calculateInsertPosition: the positions of the argument list
    toIndex,      \* calculateInsertPosition: the argument toIndex
    newPos,       \* calculateInsertPosition: the outcome, or None
    store,        \* the backing store: table -> id -> row
    store0,       \* the store as it was when updatePositions was called
    batch,        \* the arguments of the updatePositions call in progress, or None
    requests,     \* one entry per query builder made by items.map
    promise,      \* the state of the promise updatePositions returned
    view,         \* the component on screen: "lists" (ListsView) or "assets" (AssetListView)
    mem,          \* the component's state array (lists / assets), in display order
    drags,        \* the drag-ends that got past their guards, with what they issued
    remounts,     \* how many times the component was mounted again
    created,      \* the inserts made by the create handlers
    toasts,       \* the toast(text, type) calls made so far
    imp,          \* importVault: its arguments, locals and position in the code
    exported,     \* the lists of the export taken after the first import, or None
    title,        \* fetchPageTitle: where the call is, and what it resolved to
    strategies,   \* fetchPageTitle: the state of the promise of each strategy
    any,          \* fetchPageTitle: the state of the Promise.any promise
    firstValid,   \* the first strategy that fulfilled with a non-empty title, if any
    controller,   \* fetchPageTitle: "live" or "aborted" (controller.signal.aborted)
    timeout,      \* fetchPageTitle: the 8-second timer
    listener,     \* fetchPageTitle: onAbort on parentSignal
    parentSignal, \* the caller's signal: "absent", "live" or "aborted"
    shared,       \* SharedVaultPage: its state, or None on another route
    build,        \* which version of LandingPage and VaultPage is deployed
    route,        \* the route the router shows
    sessionStorage, \* the tab's sessionStorage: vault_hash
    localStorage, \* localStorage: vault_hash_persistent, vault_remember
    landing,      \* the state of the mounted LandingPage, or None
    access,       \* the handleAccessVault call that is awaiting, or None
    attempts,     \* the handleAccessVault calls made, with how each ended
    vaultPage,    \* what the mounted VaultPage rendered, or None
    sinceLock     \* "locked" after handleLock, "away" after a later navigation

vars == <<words, calls, vaultHash, shares, genPhrase, genResult,
          sortedItems, toIndex, newPos, store, store0, batch, requests, promise,
          view, mem, drags, remounts, created, toasts, imp, exported,
          title, strategies, any, firstValid, controller, timeout, listener, parentSignal,
          shared, build, route, sessionStorage, localStorage, landing, access, attempts,
          vaultPage, sinceLock>>

\* The value of an outcome that is not there yet.
None == [status |-> "none"]

----------------------------------------------------------------------------
(* Bounds of the model.                                                    *)

MaxWords == 13       \* the typed phrases have 0..MaxWords words
MaxCalls == 2        \* hashSeedPhrase calls in one behaviour
MaxStride == 1       \* patterns of the synthetic vault tokens
MaxDerive == 2       \* deriveShareHash applications in one behaviour
MaxItems == 5        \* length of the list given to calculateInsertPosition
MaxPos == 4          \* the integer positions are 0..MaxPos
MaxUpdates == 2      \* {id, position} pairs in one updatePositions call
MaxEvents == 2       \* drag-ends past their guards, and remounts, in one behaviour
MaxRequests == 4     \* position updates issued by drag-ends in one behaviour
MaxCreates == 2      \* items created through the UI in one behaviour
MaxImportLists == 2  \* lists in the data given to importVault

(* The 12 of `wordCount !== 12` and of the generator's loop.               *)
SeedWords == 12

----------------------------------------------------------------------------
(* String.prototype methods used by hashSeedPhrase, on code-unit sequences *)

\* The code units below 256 that /\s/ matches and trim() strips:
\* TAB, LF, VT, FF, CR, SPACE, NBSP.
WhiteSpace == {9, 10, 11, 12, 13, 32, 160}

\* The phrase hashed as typed, without lowercasing.
toLowerCaseOmitted(s) == s

\* toLowerCase on the Basic Latin and Latin-1 letters.
toLowerCase(s) ==
    [i \in 1..Len(s) |->
        IF s[i] \in 65..90 \/ (s[i] \in 192..222 /\ s[i] # 215)
        THEN s[i] + 32 ELSE s[i]]

RECURSIVE trimStart(_)
trimStart(s) ==
    IF s # <<>> /\ Head(s) \in WhiteSpace THEN trimStart(Tail(s)) ELSE s

RECURSIVE trimEnd(_)
trimEnd(s) ==
    IF s # <<>> /\ s[Len(s)] \in WhiteSpace
    THEN trimEnd(SubSeq(s, 1, Len(s) - 1)) ELSE s

trim(s) == trimEnd(trimStart(s))

\* s.replace(/\s+/g, ' '): every maximal run of whitespace becomes one SPACE.
replaceWhitespaceRuns(s) ==
    LET first(i) == s[i] \notin WhiteSpace \/ i = 1 \/ s[i - 1] \notin WhiteSpace
        kept == SelectSeq([i \in 1..Len(s) |-> i], first)
    IN [k \in 1..Len(kept) |-> IF s[kept[k]] \in WhiteSpace THEN 32 ELSE s[kept[k]]]

\* s.split(sep) for a one-unit separator: the pieces between the separators,
\* empty pieces included; ''.split(' ') is [''].
split(s, sep) ==
    LET isSep(i) == s[i] = sep
        cut == <<0>> \o SelectSeq([i \in 1..Len(s) |-> i], isSep) \o <<Len(s) + 1>>
    IN [k \in 1..(Len(cut) - 1) |-> SubSeq(s, cut[k] + 1, cut[k + 1] - 1)]

\* words.join(' ')
RECURSIVE join(_, _)
join(parts, sep) ==
    IF parts = <<>> THEN <<>>
    ELSE IF Len(parts) = 1 THEN parts[1]
    ELSE parts[1] \o sep \o join(Tail(parts), sep)

\* `${n}` for a natural n: its decimal digits.
RECURSIVE toDecimal(_)
toDecimal(n) ==
    IF n < 10 THEN <<48 + n>> ELSE toDecimal(n \div 10) \o <<48 + (n % 10)>>

\* TextEncoder.encode: UTF-8, one code unit at a time (no surrogates occur).
utf8(c) ==
    IF c < 128 THEN <<c>>
    ELSE IF c < 2048 THEN <<192 + (c \div 64), 128 + (c % 64)>>
    ELSE <<224 + (c \div 4096), 128 + ((c \div 64) % 64), 128 + (c % 64)>>

RECURSIVE encode(_)
encode(s) == IF s = <<>> THEN <<>> ELSE utf8(Head(s)) \o encode(Tail(s))

----------------------------------------------------------------------------
(* crypto.subtle.digest('SHA-256', data): FIPS 180-4.                      *)

RECURSIVE BitOp(_, _, _, _)
BitOp(op, a, b, n) ==
    IF n = 0 THEN 0
    ELSE LET r == IF op = "xor" THEN (a + b) % 2 ELSE (a % 2) * (b % 2)
         IN r + 2 * BitOp(op, a \div 2, b \div 2, n - 1)

XorTab == [a \in 0..15 |-> [b \in 0..15 |-> BitOp("xor", a, b, 4)]]
AndTab == [a \in 0..15 |-> [b \in 0..15 |-> BitOp("and", a, b, 4)]]

Nibbles(tab, a, b) ==
      tab[a \div 4096][b \div 4096] * 4096
    + tab[(a \div 256) % 16][(b \div 256) % 16] * 256
    + tab[(a \div 16) % 16][(b \div 16) % 16] * 16
    + tab[a % 16][b % 16]

Xor(a, b) == <<Nibbles(XorTab, a[1], b[1]), Nibbles(XorTab, a[2], b[2])>>
And(a, b) == <<Nibbles(AndTab, a[1], b[1]), Nibbles(AndTab, a[2], b[2])>>
Not(a) == <<65535 - a[1], 65535 - a[2]>>
Add(a, b) ==
    LET lo == a[2] + b[2]
    IN <<(a[1] + b[1] + (lo \div 65536)) % 65536, lo % 65536>>

\* Rotation and shift to the right by n bits, 0 < n < 32.
RotrHalf(a, n) ==
    <<(a[1] \div 2^n) + (a[2] % 2^n) * 2^(16 - n),
      (a[2] \div 2^n) + (a[1] % 2^n) * 2^(16 - n)>>
Rotr(a, n) ==
    IF n < 16 THEN RotrHalf(a, n)
    ELSE IF n = 16 THEN <<a[2], a[1]>>
    ELSE RotrHalf(<<a[2], a[1]>>, n - 16)
Shr(a, n) ==
    <<a[1] \div 2^n, (a[2] \div 2^n) + (a[1] % 2^n) * 2^(16 - n)>>

Ch(e, f, g) == Xor(And(e, f), And(Not(e), g))
Maj(a, b, c) == Xor(Xor(And(a, b), And(a, c)), And(b, c))
BigSigma0(a) == Xor(Xor(Rotr(a, 2), Rotr(a, 13)), Rotr(a, 22))
BigSigma1(e) == Xor(Xor(Rotr(e, 6), Rotr(e, 11)), Rotr(e, 25))
SmallSigma0(w) == Xor(Xor(Rotr(w, 7), Rotr(w, 18)), Shr(w, 3))
SmallSigma1(w) == Xor(Xor(Rotr(w, 17), Rotr(w, 19)), Shr(w, 10))

K ==
    << <<\h428a, \h2f98>>, <<\h7137, \h4491>>, <<\hb5c0, \hfbcf>>, <<\he9b5, \hdba5>>,
       <<\h3956, \hc25b>>, <<\h59f1, \h11f1>>, <<\h923f, \h82a4>>, <<\hab1c, \h5ed5>>,
       <<\hd807, \haa98>>, <<\h1283, \h5b01>>, <<\h2431, \h85be>>, <<\h550c, \h7dc3>>,
       <<\h72be, \h5d74>>, <<\h80de, \hb1fe>>, <<\h9bdc, \h06a7>>, <<\hc19b, \hf174>>,
       <<\he49b, \h69c1>>, <<\hefbe, \h4786>>, <<\h0fc1, \h9dc6>>, <<\h240c, \ha1cc>>,
       <<\h2de9, \h2c6f>>, <<\h4a74, \h84aa>>, <<\h5cb0, \ha9dc>>, <<\h76f9, \h88da>>,
       <<\h983e, \h5152>>, <<\ha831, \hc66d>>, <<\hb003, \h27c8>>, <<\hbf59, \h7fc7>>,
       <<\hc6e0, \h0bf3>>, <<\hd5a7, \h9147>>, <<\h06ca, \h6351>>, <<\h1429, \h2967>>,
       <<\h27b7, \h0a85>>, <<\h2e1b, \h2138>>, <<\h4d2c, \h6dfc>>, <<\h5338, \h0d13>>,
       <<\h650a, \h7354>>, <<\h766a, \h0abb>>, <<\h81c2, \hc92e>>, <<\h9272, \h2c85>>,
       <<\ha2bf, \he8a1>>, <<\ha81a, \h664b>>, <<\hc24b, \h8b70>>, <<\hc76c, \h51a3>>,
       <<\hd192, \he819>>, <<\hd699, \h0624>>, <<\hf40e, \h3585>>, <<\h106a, \ha070>>,
       <<\h19a4, \hc116>>, <<\h1e37, \h6c08>>, <<\h2748, \h774c>>, <<\h34b0, \hbcb5>>,
       <<\h391c, \h0cb3>>, <<\h4ed8, \haa4a>>, <<\h5b9c, \hca4f>>, <<\h682e, \h6ff3>>,
       <<\h748f, \h82ee>>, <<\h78a5, \h636f>>, <<\h84c8, \h7814>>, <<\h8cc7, \h0208>>,
       <<\h90be, \hfffa>>, <<\ha450, \h6ceb>>, <<\hbef9, \ha3f7>>, <<\hc671, \h78f2>> >>

H0 ==
    << <<\h6a09, \he667>>, <<\hbb67, \hae85>>, <<\h3c6e, \hf372>>, <<\ha54f, \hf53a>>,
       <<\h510e, \h527f>>, <<\h9b05, \h688c>>, <<\h1f83, \hd9ab>>, <<\h5be0, \hcd19>> >>

\* The message schedule W[1..64], from the 16 words of the block.
RECURSIVE Schedule(_)
Schedule(w) ==
    IF Len(w) = 64 THEN w
    ELSE LET t == Len(w) + 1
         IN Schedule(Append(w, Add(Add(SmallSigma1(w[t - 2]), w[t - 7]),
                                   Add(SmallSigma0(w[t - 15]), w[t - 16]))))

Round(s, wt, kt) ==
    LET t1 == Add(Add(Add(s[8], BigSigma1(s[5])), Add(Ch(s[5], s[6], s[7]), kt)), wt)
        t2 == Add(BigSigma0(s[1]), Maj(s[1], s[2], s[3]))
    IN <<Add(t1, t2), s[1], s[2], s[3], Add(s[4], t1), s[5], s[6], s[7]>>

RECURSIVE Rounds(_, _)
Rounds(st, w) ==
    IF st.t = 64 THEN st.s
    ELSE Rounds([t |-> st.t + 1, s |-> Round(st.s, w[st.t + 1], K[st.t + 1])], w)

Compress(h, block) ==
    LET w16 == [i \in 1..16 |-> <<block[4 * i - 3] * 256 + block[4 * i - 2],
                                  block[4 * i - 1] * 256 + block[4 * i]>>]
        s == Rounds([t |-> 0, s |-> h], Schedule(w16))
    IN [i \in 1..8 |-> Add(h[i], s[i])]

\* The message, a 1 bit, zeros up to 56 mod 64, and the bit length on 8 bytes.
Pad(msg) ==
    LET bits == Len(msg) * 8
    IN msg \o <<128>> \o [i \in 1..((119 - Len(msg)) % 64) |-> 0]
           \o <<0, 0, 0, 0, 0, (bits \div 65536) % 256, (bits \div 256) % 256, bits % 256>>

RECURSIVE Blocks(_, _)
Blocks(h, p) ==
    IF Len(p) = 0 THEN h
    ELSE Blocks(Compress(h, SubSeq(p, 1, 64)), SubSeq(p, 65, Len(p)))

\* The 32 bytes of the digest, big-endian word by word.
digest(data) ==
    LET h == Blocks(H0, Pad(data))
    IN [i \in 1..32 |->
          LET half == h[(i + 3) \div 4][IF (i - 1) % 4 < 2 THEN 1 ELSE 2]
          IN IF i % 2 = 1 THEN half \div 256 ELSE half % 256]

----------------------------------------------------------------------------
(* src/features/auth/seedPhrase.ts                                         *)

HexDigits == <<48, 49, 50, 51, 52, 53, 54, 55, 56, 57, 97, 98, 99, 100, 101, 102>>

\* b.toString(16)
toString16(b) ==
    IF b < 16 THEN <<HexDigits[b + 1]>>
    ELSE <<HexDigits[(b \div 16) + 1], HexDigits[(b % 16) + 1]>>

\* The byte rendered without padding: 0x0f becomes "f".
padStartOmitted(s, n, c) == s

\* s.padStart(n, c)
padStart(s, n, c) == [i \in 1..(n - Len(s)) |-> c] \o s

\* hashArray.map(b => b.toString(16).padStart(2, '0')).join('')
RECURSIVE hashHex(_)
hashHex(hashArray) ==
    IF hashArray = <<>> THEN <<>>
    ELSE padStart(toString16(Head(hashArray)), 2, 48) \o hashHex(Tail(hashArray))

normalized(phrase) == replaceWhitespaceRuns(trim(toLowerCase(phrase)))

wordCount(phrase) ==
    IF normalized(phrase) = <<>> THEN 0 ELSE Len(split(normalized(phrase), 32))

\* `Seed phrase must be exactly 12 words, got ${wordCount}`
errorMessage(count) ==
    <<83, 101, 101, 100, 32, 112, 104, 114, 97, 115, 101, 32, 109, 117, 115, 116,
      32, 98, 101, 32, 101, 120, 97, 99, 116, 108, 121, 32, 49, 50, 32, 119, 111,
      114, 100, 115, 44, 32, 103, 111, 116, 32>> \o toDecimal(count)

\* The test written `wordCount < 12`: a phrase of 13 words passes it.
rejectsTooFew(phrase) == wordCount(phrase) < SeedWords

\* The word-count test of hashSeedPhrase: TRUE when it throws.
rejects(phrase) == wordCount(phrase) # SeedWords

\* The outcome of the promise hashSeedPhrase returns.
hashSeedPhrase(phrase) ==
    IF rejects(phrase)
    THEN [status |-> "rejected", message |-> errorMessage(wordCount(phrase))]
    ELSE [status |-> "resolved", value |-> hashHex(digest(encode(normalized(phrase))))]

\* The separator put before the vault hash instead of after it.
sharePreimagePrefixed(v) == <<58, 115, 104, 97, 114, 101>> \o v

\* The separator a space instead of a colon.
sharePreimageSpaced(v) == v \o <<32, 115, 104, 97, 114, 101>>

\* vaultHash + ':share'
sharePreimage(v) == v \o <<58, 115, 104, 97, 114, 101>>

\* The vault hash handed back as the share hash.
deriveShareHashEcho(v) == [status |-> "resolved", value |-> v]

deriveShareHash(v) ==
    [status |-> "resolved", value |-> hashHex(digest(encode(sharePreimage(v))))]


\* The curated word list of ./wordlist: distinct lowercase words without
\* whitespace.  Two of the words the tests take from it: "zoo", "zone".
WORDLIST == << <<122, 111, 111>>, <<122, 111, 110, 101>> >>

\* The loop written `i < 11`.
generateSeedPhraseShort(randomIndex) ==
    join([i \in 1..(SeedWords - 1) |-> WORDLIST[randomIndex[i] + 1]], <<32>>)

\* generateSeedPhrase, given what Math.floor(Math.random() * WORDLIST.length)
\* returned in each of the 12 iterations.
generateSeedPhrase(randomIndex) ==
    join([i \in 1..SeedWords |-> WORDLIST[randomIndex[i] + 1]], <<32>>)

----------------------------------------------------------------------------
(* The phrases a user types: a list of words in one of the renderings the  *)
(* tests use (upper case, padded, runs of spaces, tabs, newlines).         *)

toUpperCase(s) ==
    [i \in 1..Len(s) |->
        IF s[i] \in 97..122 \/ (s[i] \in 224..254 /\ s[i] # 247)
        THEN s[i] - 32 ELSE s[i]]

\* n words: "word" n times; "zoo" ... "zoo" "zone"; "café" "zoo" "café" ...
BaseWords(n, v) ==
    [i \in 1..n |->
        IF v = 1 THEN <<119, 111, 114, 100>>
        ELSE IF v = 2 THEN (IF i = n THEN WORDLIST[2] ELSE WORDLIST[1])
        ELSE (IF i % 2 = 1 THEN <<99, 97, 102, 233>> ELSE WORDLIST[1])]

Bases == { BaseWords(n, v) : n \in 0..MaxWords, v \in 1..3 }

Styles == {"plain", "upper", "padded", "spaced", "tabbed", "multiline", "messy"}

Render(ws, style) ==
    CASE style = "plain" -> join(ws, <<32>>)
      [] style = "upper" -> toUpperCase(join(ws, <<32>>))
      [] style = "padded" -> <<32, 32, 32>> \o join(ws, <<32>>) \o <<32, 32, 32>>
      [] style = "spaced" -> join(ws, <<32, 32, 32>>)
      [] style = "tabbed" -> join(ws, <<9>>)
      [] style = "multiline" -> join(ws, <<10>>)
      [] style = "messy" -> <<10, 9>> \o toUpperCase(join(ws, <<32, 9, 13, 10, 160>>)) \o <<160, 32>>

IsHexString(s, n) == Len(s) = n /\ \A i \in 1..Len(s) : s[i] \in (48..57) \cup (97..102)

\* 64 lowercase hex digits: digit number i is (i * k + d) mod 16.
HexToken(k, d) == [i \in 1..64 |-> HexDigits[((i * k + d) % 16) + 1]]

VaultTokens ==
    { HexToken(k, d) : k \in 0..MaxStride, d \in 0..15 }
    \cup { hashSeedPhrase(Render(BaseWords(SeedWords, v), "plain")).value : v \in 1..3 }

\* Strings that are no vault token: deriveShareHash does not validate.
Malformed ==
    { <<>>, <<122, 122>>, <<99, 97, 102, 233>>, [i \in 1..64 |-> 65],
      [i \in 1..63 |-> 97], [i \in 1..65 |-> 48] }

----------------------------------------------------------------------------
(* The identity components as state machines.                              *)

IdleHash == words = <<>> /\ calls = <<>>
IdleShare == vaultHash = <<>> /\ shares = <<>>
IdleGenerate == genPhrase = None /\ genResult = None
IdlePosition == sortedItems = <<>> /\ toIndex = 0 /\ newPos = None
IdlePersist ==
    store = <<>> /\ store0 = <<>> /\ batch = None /\ requests = <<>> /\ promise = "none"

hashVars == <<words, calls>>
shareVars == <<vaultHash, shares>>
generateVars == <<genPhrase, genResult>>
positionVars == <<sortedItems, toIndex, newPos>>
persistVars == <<store, store0, batch, requests, promise>>

\* The components modelled further below, at rest.
IdleSession ==
    /\ view = "none" /\ mem = <<>> /\ drags = <<>> /\ remounts = 0 /\ created = <<>>
    /\ toasts = <<>>
sessionVars == <<view, mem, drags, remounts, created, toasts>>
IdleImport == imp = None /\ exported = None
importVars == <<imp, exported>>
IdleTitle ==
    /\ title = None /\ strategies = <<>> /\ any = None /\ firstValid = None
    /\ controller = "none" /\ timeout = "none" /\ listener = "none" /\ parentSignal = "absent"
titleVars == <<title, strategies, any, firstValid, controller, timeout, listener, parentSignal>>
IdleShared == shared = None
IdlePages == IdleTitle /\ IdleShared
pageVars == <<titleVars, shared>>
IdleLogin ==
    /\ build = "none" /\ route = None /\ sessionStorage = None /\ localStorage = None
    /\ landing = None /\ access = None /\ attempts = <<>> /\ vaultPage = None
    /\ sinceLock = "open"
loginVars == <<build, route, sessionStorage, localStorage, landing, access, attempts,
               vaultPage, sinceLock>>
IdleLater == IdleSession /\ IdleImport /\ IdlePages /\ IdleLogin
laterVars == <<sessionVars, importVars, pageVars, loginVars>>

\* A user types the words in some rendering and the page awaits hashSeedPhrase.
InitHash ==
    /\ words \in Bases
    /\ calls = <<>>
    /\ IdleShare /\ IdleGenerate /\ IdlePosition /\ IdlePersist /\ IdleLater

CallHashSeedPhrase(style) ==
    /\ Len(calls) < MaxCalls
    /\ LET phrase == Render(words, style)
       IN calls' = Append(calls, [phrase |-> phrase, result |-> hashSeedPhrase(phrase)])
    /\ UNCHANGED <<words, shareVars, generateVars, positionVars, persistVars, laterVars>>

NextHash == \E style \in Styles : CallHashSeedPhrase(style)

SpecHash == InitHash /\ [][NextHash]_vars

\* deriveShareHash applied to a string, then to its own result.
InitShare ==
    /\ vaultHash \in VaultTokens \cup Malformed
    /\ shares = <<>>
    /\ IdleHash /\ IdleGenerate /\ IdlePosition /\ IdlePersist /\ IdleLater

CallDeriveShareHash ==
    /\ Len(shares) < MaxDerive
    /\ shares' = Append(shares,
                        deriveShareHash(IF shares = <<>> THEN vaultHash
                                        ELSE shares[Len(shares)].value))
    /\ UNCHANGED <<vaultHash, hashVars, generateVars, positionVars, persistVars, laterVars>>

NextShare == CallDeriveShareHash

SpecShare == InitShare /\ [][NextShare]_vars

\* generateSeedPhrase, and hashSeedPhrase on what it returned.
InitGenerate ==
    /\ IdleGenerate
    /\ IdleHash /\ IdleShare /\ IdlePosition /\ IdlePersist /\ IdleLater

CallGenerateSeedPhrase ==
    /\ genPhrase = None
    /\ \E randomIndex \in [1..SeedWords -> 0..(Len(WORDLIST) - 1)] :
          genPhrase' = [status |-> "returned", value |-> generateSeedPhrase(randomIndex)]
    /\ UNCHANGED <<genResult, hashVars, shareVars, positionVars, persistVars, laterVars>>

HashGenerated ==
    /\ genPhrase # None
    /\ genResult = None
    /\ genResult' = hashSeedPhrase(genPhrase.value)
    /\ UNCHANGED <<genPhrase, hashVars, shareVars, positionVars, persistVars, laterVars>>

NextGenerate == CallGenerateSeedPhrase \/ HashGenerated

SpecGenerate == InitGenerate /\ [][NextGenerate]_vars

----------------------------------------------------------------------------
(* Properties of the identity components.                                  *)

Contains(s, sub) ==
    \E i \in 1..(Len(s) - Len(sub) + 1) : SubSeq(s, i, i + Len(sub) - 1) = sub

Range(f) == { f[i] : i \in DOMAIN f }

\* "12 words"
TwelveWordsText == <<49, 50, 32, 119, 111, 114, 100, 115>>

Word12Digest ==
    <<50, 101, 100, 97, 50, 51, 97, 97, 98, 53, 52, 55, 98, 53, 97, 48, 51, 52, 51,
      56, 54, 97, 98, 101, 99, 97, 53, 50, 53, 51, 98, 99, 51, 100, 51, 52, 51, 48,
      102, 55, 99, 101, 52, 100, 54, 97, 52, 52, 102, 51, 99, 98, 49, 57, 48, 102,
      100, 54, 55, 52, 99, 56, 49, 102>>

\* C2: a phrase of exactly 12 words resolves to 64 lowercase hex digits, two per
\* digest byte in byte order (for twelve times "word": the known digest).
C2_TwelveWordsResolveToHex64 ==
    \A i \in 1..Len(calls) :
        Len(words) = 12 =>
            /\ calls[i].result.status = "resolved"
            /\ IsHexString(calls[i].result.value, 64)
            /\ words = BaseWords(12, 1) => calls[i].result.value = Word12Digest

C2_Witness ==
    /\ Len(words) = 12
    /\ \E i \in 1..Len(calls) :
          /\ calls[i].phrase = Render(BaseWords(12, 1), "messy")
          /\ calls[i].result.status = "resolved"

\* C3: two accepted renderings of the same words (they differ in letter case
\* and whitespace only), and two calls with the same input, give one digest.
C3_DigestOfNormalizedPhrase ==
    \A i, j \in 1..Len(calls) :
        (calls[i].result.status = "resolved" /\ calls[j].result.status = "resolved")
            => calls[i].result.value = calls[j].result.value

C3_Witness ==
    /\ Len(calls) = 2
    /\ calls[1].phrase # calls[2].phrase
    /\ calls[1].result.status = "resolved"
    /\ calls[1].result = calls[2].result

\* The argument of the k-th deriveShareHash call.
ShareInput(k) == IF k = 1 THEN vaultHash ELSE shares[k - 1].value

\* SHA-256 of "aaaa...a:share" (64 times "a"), of ":share" and of "café:share",
\* as hex digits (computed independently of this module).
KnownShareHash(v) ==
    CASE v = [i \in 1..64 |-> 97] ->
            <<52, 51, 52, 102, 49, 52, 56, 56, 102, 97, 99, 102, 50, 100, 57, 100, 52,
              49, 97, 56, 51, 48, 53, 98, 100, 53, 57, 97, 51, 98, 49, 97, 100, 51, 49,
              51, 102, 57, 102, 50, 99, 57, 52, 51, 50, 98, 98, 98, 56, 51, 98, 54, 102,
              99, 55, 56, 98, 50, 57, 50, 101, 101, 100, 55>>
      [] v = <<>> ->
            <<53, 101, 56, 52, 55, 49, 97, 57, 101, 97, 51, 50, 101, 55, 48, 100, 57,
              53, 98, 49, 99, 56, 52, 57, 48, 98, 100, 55, 51, 52, 56, 99, 57, 51, 53,
              51, 98, 57, 101, 49, 102, 99, 51, 98, 99, 99, 51, 49, 100, 98, 98, 98, 50,
              99, 55, 55, 100, 51, 99, 53, 100, 49, 51, 50>>
      [] v = <<99, 97, 102, 233>> ->
            <<48, 49, 97, 50, 53, 54, 56, 55, 51, 49, 56, 53, 50, 52, 49, 97, 48, 97,
              56, 52, 55, 52, 52, 57, 56, 97, 99, 49, 53, 55, 48, 52, 53, 55, 100, 99,
              101, 102, 51, 52, 54, 102, 50, 55, 52, 51, 101, 56, 51, 48, 49, 51, 49, 98,
              53, 55, 98, 48, 48, 48, 49, 56, 57, 99>>
      [] OTHER -> <<>>

\* C4: deriveShareHash(v) resolves, for every string v, to the hex rendering of
\* SHA-256 of the UTF-8 bytes of v followed by ":share".
C4_ShareHashOfSuffixedInput ==
    \A k \in 1..Len(shares) :
        /\ shares[k].status = "resolved"
        /\ shares[k].value =
              hashHex(digest(encode(ShareInput(k) \o <<58, 115, 104, 97, 114, 101>>)))
        /\ KnownShareHash(ShareInput(k)) # <<>>
              => shares[k].value = KnownShareHash(ShareInput(k))

C4_Witness ==
    /\ vaultHash = [i \in 1..64 |-> 97]
    /\ Len(shares) = 1
    /\ shares[1].value = KnownShareHash(vaultHash)

\* C5: for a vault token (64 lowercase hex digits) the share hash differs from
\* the token, and the share hash of the share hash differs from the share hash.
C5_ShareHashDiffersFromInput ==
    IsHexString(vaultHash, 64) =>
        \A k \in 1..Len(shares) : shares[k].value # ShareInput(k)

C5_Witness ==
    /\ vaultHash = Word12Digest
    /\ Len(shares) = 2
    /\ shares[2].value # shares[1].value
    /\ shares[1].value # vaultHash

----------------------------------------------------------------------------
(* hashSeedPhrase and deriveShareHash side by side: the strings they hash. *)

\* Twelve words, the last of them "zone:share".
SuffixedWords ==
    [i \in 1..SeedWords |->
        IF i = SeedWords THEN WORDLIST[2] \o <<58, 115, 104, 97, 114, 101>> ELSE WORDLIST[1]]

\* No vault token: "zoo zoo ... zoo zone", twelve words.
PhraseAsToken == join(BaseWords(SeedWords, 2), <<32>>)

PreimageWords ==
    { BaseWords(SeedWords, 1), BaseWords(SeedWords, 2), BaseWords(SeedWords, 3),
      SuffixedWords, BaseWords(SeedWords - 1, 1) }

PreimageTokens ==
    { HexToken(0, 10), HexToken(1, 0), Word12Digest, PhraseAsToken, <<>> }

InitPreimage ==
    /\ words \in PreimageWords
    /\ calls = <<>>
    /\ vaultHash \in PreimageTokens
    /\ shares = <<>>
    /\ IdleGenerate /\ IdlePosition /\ IdlePersist /\ IdleLater

NextPreimage ==
    \/ \E style \in {"plain", "messy"} : CallHashSeedPhrase(style)
    \/ CallDeriveShareHash

SpecPreimage == InitPreimage /\ [][NextPreimage]_vars

\* How many times the code unit c occurs in s.
Count(s, c) == Cardinality({ i \in 1..Len(s) : s[i] = c })

\* The string the k-th deriveShareHash call hashes.
SharePreimageOf(k) == sharePreimage(ShareInput(k))

C6_GeneratedPhraseAccepted ==
    genPhrase.status = "returned" =>
        /\ Len(split(genPhrase.value, 32)) = 12
        /\ \A i \in 1..Len(split(genPhrase.value, 32)) :
              split(genPhrase.value, 32)[i] \in Range(WORDLIST)
        /\ genResult.status # "none" =>
              /\ genResult.status = "resolved"
              /\ IsHexString(genResult.value, 64)

C6_Witness ==
    /\ genPhrase.status = "returned"
    /\ Range(split(genPhrase.value, 32)) = Range(WORDLIST)
    /\ genResult.status = "resolved"

----------------------------------------------------------------------------
(* src/lib/position.ts: calculateInsertPosition                            *)
(*                                                                         *)
(* A position is a JS number.  The model holds the dyadic rationals        *)
(* n / d (d a power of two, the fraction in lowest terms), on which the    *)
(* additions and the halving of the code are exact.                        *)

RECURSIVE Reduce(_, _)
Reduce(n, d) == IF d > 1 /\ n % 2 = 0 THEN Reduce(n \div 2, d \div 2) ELSE [n |-> n, d |-> d]

Num(k) == [n |-> k, d |-> 1]
Plus(a, b) == Reduce(a.n * b.d + b.n * a.d, a.d * b.d)
Minus(a, b) == Reduce(a.n * b.d - b.n * a.d, a.d * b.d)
Halve(a) == Reduce(a.n, a.d * 2)
Less(a, b) == a.n * b.d < b.n * a.d

\* sortedItems[i] of a JS array (indices from 0): undefined outside the array.
Undefined == [defined |-> FALSE]
ItemAt(items, i) ==
    IF i \in 0..(Len(items) - 1) THEN [defined |-> TRUE, item |-> items[i + 1]]
    ELSE Undefined

\* The midpoint case taking the neighbour before the slot as the new position.
calculateInsertPositionNoMidpoint(items, index) ==
    LET before == ItemAt(items, index - 1)
        after == ItemAt(items, index)
    IN IF ~before.defined
       THEN IF ~after.defined THEN [status |-> "thrown", error |-> "TypeError"]
            ELSE [status |-> "returned", value |-> Minus(after.item.position, Num(1))]
       ELSE IF ~after.defined
            THEN [status |-> "returned", value |-> Plus(before.item.position, Num(1))]
            ELSE [status |-> "returned", value |-> before.item.position]

\* The first slot taking the position of the current first item.
calculateInsertPositionNoStep(items, index) ==
    LET before == ItemAt(items, index - 1)
        after == ItemAt(items, index)
    IN IF ~before.defined
       THEN IF ~after.defined THEN [status |-> "thrown", error |-> "TypeError"]
            ELSE [status |-> "returned", value |-> after.item.position]
       ELSE IF ~after.defined
            THEN [status |-> "returned", value |-> Plus(before.item.position, Num(1))]
            ELSE [status |-> "returned",
                  value |-> Halve(Plus(before.item.position, after.item.position))]

\* An empty list, or an index outside it, giving position 0 instead of throwing.
calculateInsertPositionGuarded(items, index) ==
    LET before == ItemAt(items, index - 1)
        after == ItemAt(items, index)
    IN IF ~before.defined
       THEN IF ~after.defined THEN [status |-> "returned", value |-> Num(0)]
            ELSE [status |-> "returned", value |-> Minus(after.item.position, Num(1))]
       ELSE IF ~after.defined
            THEN [status |-> "returned", value |-> Plus(before.item.position, Num(1))]
            ELSE [status |-> "returned",
                  value |-> Halve(Plus(before.item.position, after.item.position))]

\* Reading .position of undefined throws a TypeError.
calculateInsertPosition(items, index) ==
    LET before == ItemAt(items, index - 1)
        after == ItemAt(items, index)
    IN IF ~before.defined
       THEN IF ~after.defined THEN [status |-> "thrown", error |-> "TypeError"]
            ELSE [status |-> "returned", value |-> Minus(after.item.position, Num(1))]
       ELSE IF ~after.defined
            THEN [status |-> "returned", value |-> Plus(before.item.position, Num(1))]
            ELSE [status |-> "returned",
                  value |-> Halve(Plus(before.item.position, after.item.position))]

\* The positions of the argument lists: 0..MaxPos and the halves between them.
PositionValues ==
    { Num(k) : k \in 0..MaxPos } \cup { Reduce(2 * k + 1, 2) : k \in 0..(MaxPos - 1) }

SortedAscending(items) ==
    \A i \in 1..(Len(items) - 1) : ~Less(items[i + 1].position, items[i].position)

StrictlyAscending(items) ==
    \A i \in 1..(Len(items) - 1) : Less(items[i].position, items[i + 1].position)

\* The lists sorted ascending by position, equal positions included.
RECURSIVE SortedListsOfLength(_)
SortedListsOfLength(k) ==
    IF k = 0 THEN { <<>> }
    ELSE UNION { { Append(items, [position |-> p]) :
                     p \in { q \in PositionValues : SortedAscending(Append(items, [position |-> q])) } } :
                 items \in SortedListsOfLength(k - 1) }

SortedLists == UNION { SortedListsOfLength(k) : k \in 0..MaxItems }

InitPosition ==
    /\ sortedItems \in SortedLists
    /\ toIndex \in -1..(Len(sortedItems) + 1)
    /\ newPos = None
    /\ IdleHash /\ IdleShare /\ IdleGenerate /\ IdlePersist /\ IdleLater

CallCalculateInsertPosition ==
    /\ newPos = None
    /\ newPos' = calculateInsertPosition(sortedItems, toIndex)
    /\ UNCHANGED <<sortedItems, toIndex, hashVars, shareVars, generateVars, persistVars, laterVars>>

NextPosition == CallCalculateInsertPosition

SpecPosition == InitPosition /\ [][NextPosition]_vars

----------------------------------------------------------------------------
(* Properties of calculateInsertPosition.                                  *)

TestItems == [i \in 1..5 |-> [position |-> Num(i - 1)]]

\* C7: on a non-empty list the result is the first position minus 1 at index 0,
\* the last position plus 1 at index length, and otherwise the mean of the two
\* neighbours; for the positions 0,1,2,3,4 that is -1, 5, and 2.5 at index 3.
C7_InsertPositionFormula ==
    (newPos.status # "none" /\ Len(sortedItems) >= 1 /\ toIndex \in 0..Len(sortedItems)) =>
        /\ newPos.status = "returned"
        /\ LET r == newPos.value
               first == sortedItems[1].position
               last == sortedItems[Len(sortedItems)].position
           IN /\ toIndex = 0 => r.n * first.d = (first.n - first.d) * r.d
              /\ toIndex = Len(sortedItems) => r.n * last.d = (last.n + last.d) * r.d
              /\ toIndex \in 1..(Len(sortedItems) - 1) =>
                    LET a == sortedItems[toIndex].position
                        b == sortedItems[toIndex + 1].position
                    IN 2 * r.n * a.d * b.d = (a.n * b.d + b.n * a.d) * r.d
              /\ sortedItems = TestItems =>
                    /\ toIndex = 0 => r = [n |-> -1, d |-> 1]
                    /\ toIndex = 5 => r = [n |-> 5, d |-> 1]
                    /\ toIndex = 3 => r = [n |-> 5, d |-> 2]

C7_Witness ==
    /\ sortedItems = TestItems
    /\ toIndex = 3
    /\ newPos.status = "returned"
    /\ newPos.value = [n |-> 5, d |-> 2]

\* The result lies strictly between the item before the slot and the item after it.
StrictlyBetweenNeighbours ==
    /\ newPos.status = "returned"
    /\ toIndex >= 1 => Less(sortedItems[toIndex].position, newPos.value)
    /\ toIndex < Len(sortedItems) => Less(newPos.value, sortedItems[toIndex + 1].position)

\* C8 as claimed: for every list sorted ascending and every toIndex in 0..length
\* the result is strictly between its neighbours.
C8_AsClaimed ==
    (newPos.status # "none" /\ SortedAscending(sortedItems)
        /\ toIndex \in 0..Len(sortedItems)) => StrictlyBetweenNeighbours

\* C8: for every non-empty list whose positions are strictly ascending and every
\* toIndex in 0..length the result is strictly between its neighbours.
C8_BetweenDistinctNeighbours ==
    (newPos.status # "none" /\ Len(sortedItems) >= 1 /\ StrictlyAscending(sortedItems)
        /\ toIndex \in 0..Len(sortedItems)) => StrictlyBetweenNeighbours

C8_Witness ==
    /\ newPos.status = "returned"
    /\ StrictlyAscending(sortedItems)
    /\ toIndex \in 1..(Len(sortedItems) - 1)
    /\ newPos.value.d = 4
    /\ Less(sortedItems[toIndex].position, newPos.value)

\* C30: calculateInsertPosition returns a number exactly when the list is
\* non-empty and toIndex is in 0..length; with an empty list (toIndex 0, the
\* first item of a container) and with a toIndex outside 0..length it throws.
C30_ThrowsOnEmptyListOrIndexOutside ==
    newPos.status # "none" =>
        /\ newPos.status \in {"returned", "thrown"}
        /\ newPos.status = "returned"
              <=> (Len(sortedItems) >= 1 /\ toIndex \in 0..Len(sortedItems))
        /\ newPos.status = "thrown" => newPos.error = "TypeError"

\* The first item of a container: the empty list, toIndex 0.
C30_Witness ==
    /\ sortedItems = <<>>
    /\ toIndex = 0
    /\ newPos.status = "thrown"

----------------------------------------------------------------------------
(* src/lib/position.ts: updatePositions, and the store behind db.          *)

Tables == {"lists", "assets"}

\* A vault with three lists and two assets, created at positions 0, 1, 2.
InitialStore ==
    [t \in Tables |->
        IF t = "lists"
        THEN [id \in {"l1", "l2", "l3"} |->
                [name |-> id, position |-> Num(CHOOSE k \in 0..2 : id = <<"l1", "l2", "l3">>[k + 1])]]
        ELSE [id \in {"a1", "a2"} |->
                [name |-> id, position |-> Num(CHOOSE k \in 0..1 : id = <<"a1", "a2">>[k + 1])]]]

\* update(payload) with no filter: every row of the table is written.
updateUnfiltered(st, table, id, position) ==
    [st EXCEPT ![table] = [rid \in DOMAIN @ |-> [@[rid] EXCEPT !.position = position]]]

\* db.from(table).update({ position }).eq('id', id), carried out by the store:
\* the rows of the table whose id matches get the position, nothing else changes.
update(st, table, id, position) ==
    [st EXCEPT ![table] =
        [rid \in DOMAIN @ |->
            IF rid = id THEN [@[rid] EXCEPT !.position = position] ELSE @[rid]]]

\* What awaiting a query builder gives: it fulfils with { data, error }, also
\* when the store reported an error.
thenOutcome(request) ==
    [state |-> "fulfilled", value |-> [data |-> "null", error |-> request.result = "error"]]

\* Promise.all: rejected as soon as one input rejects, fulfilled when all fulfilled.
PromiseAll(outcomes) ==
    IF \E i \in 1..Len(outcomes) : outcomes[i].state = "rejected"
    THEN "rejected" ELSE "fulfilled"

\* The ids a caller names: the rows of the table and one id no row has.
ItemIds(table) == DOMAIN InitialStore[table] \cup {"ghost"}

UpdatePositionValues == { Num(-1), Num(0), Num(5), Reduce(5, 2) }

\* The arguments `items`: each id at most once.
UpdateLists(table) ==
    { items \in UNION { [1..k -> [id : ItemIds(table), position : UpdatePositionValues]] :
                          k \in 0..MaxUpdates } :
        \A i, j \in 1..Len(items) : items[i].id = items[j].id => i = j }

\* A loop that awaits each update before it starts the next one: at the first
\* await only the first update is under way.
issueOneAtATime(table, items) ==
    [i \in 1..(IF Len(items) = 0 THEN 0 ELSE 1) |->
        [op |-> "update", table |-> table, id |-> items[i].id,
         position |-> items[i].position, result |-> "pending"]]

\* items.map(item => db.from(table).update({ position }).eq('id', item.id)):
\* the operations sent to the store, one update per item, none of them a read.
issue(table, items) ==
    [i \in 1..Len(items) |->
        [op |-> "update", table |-> table, id |-> items[i].id,
         position |-> items[i].position, result |-> "pending"]]

InitPersist ==
    /\ store = InitialStore
    /\ store0 = InitialStore
    /\ batch = None
    /\ requests = <<>>
    /\ promise = "none"
    /\ IdleHash /\ IdleShare /\ IdleGenerate /\ IdlePosition /\ IdleLater

\* updatePositions(db, table, items) up to its await: one query builder per
\* item, all of them started by Promise.all before any answer is in.
CallUpdatePositions(table, items) ==
    /\ promise = "none"
    /\ batch' = [status |-> "called", table |-> table, items |-> items]
    /\ requests' = issue(table, items)
    /\ store0' = store
    /\ promise' = "pending"
    /\ UNCHANGED <<store, hashVars, shareVars, generateVars, positionVars, laterVars>>

\* The store answers one request, in any order: it applies the update, or it
\* reports an error and changes nothing.
StoreAnswers(i, ok) ==
    /\ requests[i].result = "pending"
    /\ requests' = [requests EXCEPT ![i].result = IF ok THEN "ok" ELSE "error"]
    /\ store' = IF ok THEN update(store, requests[i].table, requests[i].id, requests[i].position)
                ELSE store
    /\ UNCHANGED <<store0, batch, promise, hashVars, shareVars, generateVars, positionVars, laterVars>>

\* Every builder has settled: the await of Promise.all ends.
Settle ==
    /\ promise = "pending"
    /\ \A i \in 1..Len(requests) : requests[i].result # "pending"
    /\ promise' = PromiseAll([i \in 1..Len(requests) |-> thenOutcome(requests[i])])
    /\ UNCHANGED <<store, store0, batch, requests, hashVars, shareVars, generateVars, positionVars, laterVars>>

NextPersist ==
    \/ \E table \in Tables : \E items \in UpdateLists(table) : CallUpdatePositions(table, items)
    \/ \E i \in 1..Len(requests) : \E ok \in BOOLEAN : StoreAnswers(i, ok)
    \/ Settle

SpecPersist == InitPersist /\ [][NextPersist]_vars

----------------------------------------------------------------------------
(* Properties of updatePositions.                                          *)

AllUpdatesSucceeded ==
    /\ promise = "fulfilled"
    /\ \A i \in 1..Len(requests) : requests[i].result = "ok"

C10_RejectsWhenAnUpdateFails ==
    /\ (promise \in {"fulfilled", "rejected"}
            /\ \E i \in 1..Len(requests) : requests[i].result = "error")
          => promise = "rejected"
    /\ promise = "fulfilled" => \A i \in 1..Len(requests) : requests[i].result = "ok"

\* C11: updatePositions issues exactly one update per {id, position} pair, all
\* of them under way before any answer is in, nothing but updates, and the
\* operations issued stay the same whatever the store answers (no retry).
C11_OneUpdatePerItemAllDispatched ==
    batch.status = "called" =>
        /\ Len(requests) = Len(batch.items)
        /\ \A i \in 1..Len(requests) :
              /\ requests[i].op = "update"
              /\ requests[i].table = batch.table
              /\ requests[i].id = batch.items[i].id
              /\ requests[i].position = batch.items[i].position

C11_Witness ==
    /\ batch.status = "called"
    /\ Len(batch.items) = 2
    /\ requests[1].result = "pending"
    /\ requests[2].result = "error"

----------------------------------------------------------------------------
(* src/features/lists/ListsView.tsx and src/features/assets/               *)
(* AssetListView.tsx: the state array, its fetch, and handleDragEnd.       *)

earlierVars == <<hashVars, shareVars, generateVars, positionVars>>
IdleEarlier == IdleHash /\ IdleShare /\ IdleGenerate /\ IdlePosition

Views == {"lists", "assets"}

\* Stored rows with equal positions: lists at 1, 2, 2 (the first list deleted,
\* one created at lists.length), assets at the column default 0.
TiedStore ==
    [t \in Tables |->
        IF t = "lists"
        THEN [id \in {"l2", "l3", "l4"} |->
                [name |-> id, position |-> IF id = "l2" THEN Num(1) ELSE Num(2)]]
        ELSE [id \in {"a1", "a2"} |-> [name |-> id, position |-> Num(0)]]]

\* The sequences that hold each element of S once.
Orders(S) ==
    { o \in [1..Cardinality(S) -> S] : \A i, j \in 1..Cardinality(S) : o[i] = o[j] => i = j }

\* The select without its order clause: the rows in any order.
fetchUnordered(st, table) ==
    { [i \in 1..Len(o) |-> [id |-> o[i], position |-> st[table][o[i]].position]] :
        o \in Orders(DOMAIN st[table]) }

\* select(...).order('position', { ascending: true }): the rows of the
\* container by ascending position; rows with equal positions in any order.
fetch(st, table) ==
    { [i \in 1..Len(o) |-> [id |-> o[i], position |-> st[table][o[i]].position]] :
        o \in { q \in Orders(DOMAIN st[table]) :
                  \A i \in 1..(Len(q) - 1) :
                      ~Less(st[table][q[i + 1]].position, st[table][q[i]].position) } }

Ids(items) == [i \in 1..Len(items) |-> items[i].id]

\* Array.prototype.findIndex(x => x.id === id): the 0-based index, or -1.
findIndex(items, id) ==
    IF \E i \in 1..Len(items) : items[i].id = id
    THEN (CHOOSE i \in 1..Len(items) :
              items[i].id = id /\ \A j \in 1..(i - 1) : items[j].id # id) - 1
    ELSE -1

\* arrayMove(array, from, to) of @dnd-kit/sortable, 0-based: the element at
\* `from` is taken out and put back at index `to`.
arrayMove(array, from, to) ==
    LET rest == [i \in 1..(Len(array) - 1) |-> IF i <= from THEN array[i] ELSE array[i + 1]]
    IN [i \in 1..Len(array) |->
           IF i < to + 1 THEN rest[i]
           ELSE IF i = to + 1 THEN array[from + 1]
           ELSE rest[i - 1]]

\* A drag-end that writes the dragged item only.
dragUpdatesMovedOnly(reordered, active) ==
    LET i == findIndex(reordered, active)
    IN << [id |-> active, position |-> Num(i)] >>

\* reordered.map((l, i) => ({ id: l.id, position: i })); `active` is not used.
dragUpdates(reordered, active) ==
    [i \in 1..Len(reordered) |-> [id |-> reordered[i].id, position |-> Num(i - 1)]]

\* What a drag-end event names: an item on screen, an item that is not in the
\* state array, or (for over) nothing.
DragIds(items) == { items[i].id : i \in 1..Len(items) } \cup {"ghost"}

Pending == { i \in 1..Len(requests) : requests[i].result = "pending" }

InitDrag ==
    /\ view \in Views
    /\ store \in {InitialStore, TiedStore}
    /\ mem \in fetch(store, view)
    /\ drags = <<>>
    /\ remounts = 0
    /\ created = <<>>
    /\ toasts = <<>>
    /\ requests = <<>>
    /\ store0 = <<>> /\ batch = None /\ promise = "none"
    /\ IdleEarlier /\ IdleImport /\ IdlePages /\ IdleLogin

\* handleDragEnd(event), up to the await inside updatePositions.
HandleDragEnd(active, over) ==
    /\ Len(drags) + remounts < MaxEvents
    /\ Len(requests) + Len(mem) <= MaxRequests
    /\ LET oldIndex == findIndex(mem, active)
           newIndex == findIndex(mem, over)
       IN IF over = "null" \/ active = over \/ oldIndex = -1 \/ newIndex = -1
          THEN UNCHANGED <<mem, requests, drags>>
          ELSE LET reordered == arrayMove(mem, oldIndex, newIndex)
                   updates == dragUpdates(reordered, active)
               IN /\ mem' = reordered
                  /\ requests' = requests \o issue(view, updates)
                  /\ drags' = Append(drags,
                        [active |-> active, over |-> over, before |-> Ids(mem),
                         after |-> Ids(reordered), updates |-> updates,
                         first |-> Len(requests) + 1, last |-> Len(requests) + Len(updates),
                         overlapped |-> Pending # {}, promise |-> "pending"])
    /\ UNCHANGED <<view, remounts, created, toasts, store, store0, batch, promise, earlierVars, importVars, pageVars, loginVars>>

\* A drag-end that puts the old order back when one of its updates failed.
SettleDragRollback(k) ==
    /\ drags[k].promise = "pending"
    /\ \A i \in drags[k].first..drags[k].last : requests[i].result # "pending"
    /\ drags' = [drags EXCEPT ![k].promise =
                    PromiseAll([i \in 1..Len(drags[k].updates) |->
                                   thenOutcome(requests[drags[k].first + i - 1])])]
    /\ mem' = IF \E i \in drags[k].first..drags[k].last : requests[i].result = "error"
              THEN [i \in 1..Len(mem) |->
                       mem[CHOOSE j \in 1..Len(mem) : mem[j].id = drags[k].before[i]]]
              ELSE mem
    /\ UNCHANGED <<view, remounts, created, toasts, persistVars, earlierVars, importVars, pageVars, loginVars>>

\* The await of updatePositions inside drag-end number k ends.
SettleDrag(k) ==
    /\ drags[k].promise = "pending"
    /\ \A i \in drags[k].first..drags[k].last : requests[i].result # "pending"
    /\ drags' = [drags EXCEPT ![k].promise =
                    PromiseAll([i \in 1..Len(drags[k].updates) |->
                                   thenOutcome(requests[drags[k].first + i - 1])])]
    /\ UNCHANGED <<view, mem, remounts, created, toasts, persistVars, earlierVars, importVars, pageVars, loginVars>>

\* The component is mounted again (a later session): fetchLists / fetchAssets
\* with the store answering.
Remount ==
    /\ Len(drags) + remounts < MaxEvents
    /\ mem' \in fetch(store, view)
    /\ remounts' = remounts + 1
    /\ UNCHANGED <<view, drags, created, toasts, persistVars, earlierVars, importVars, pageVars, loginVars>>

NextDrag ==
    \/ \E active \in DragIds(mem) : \E over \in DragIds(mem) \cup {"null"} :
          HandleDragEnd(active, over)
    \/ \E i \in 1..Len(requests) : \E ok \in BOOLEAN : StoreAnswers(i, ok)
    \/ \E k \in 1..Len(drags) : SettleDrag(k)
    \/ Remount

SpecDrag == InitDrag /\ [][NextDrag]_vars

----------------------------------------------------------------------------
(* Properties of the drag-and-drop reordering.                             *)

DragSucceeded(k) ==
    /\ drags[k].promise = "fulfilled"
    /\ \A i \in drags[k].first..drags[k].last : requests[i].result = "ok"

C13_RefetchReturnsMemoryOrder ==
    (/\ drags # <<>>
     /\ remounts = 0
     /\ \A k \in 1..Len(drags) : DragSucceeded(k)
     /\ \A i \in 1..Len(requests) : requests[i].result = "ok")
        => \A f \in fetch(store, view) : Ids(f) = Ids(mem)

\* C13, one drag at a time: after the last drag-end, begun with no earlier
\* update in flight and all of its updates succeeded, a fetch ordered by
\* position returns the items in the order the drag left in memory.
C13_RefetchReturnsDraggedOrder ==
    \A k \in 1..Len(drags) :
        (k = Len(drags) /\ DragSucceeded(k) /\ ~drags[k].overlapped)
            => /\ \A f \in fetch(store, view) : Ids(f) = drags[k].after
               /\ remounts = 0 => Ids(mem) = drags[k].after

C13_Witness ==
    /\ Len(drags) = 1
    /\ DragSucceeded(1)
    /\ drags[1].after # drags[1].before
    /\ remounts = 1
    /\ Ids(mem) = drags[1].after
    /\ \A i \in 1..Len(mem) : mem[i].position = Num(i - 1)

AllSucceeded == \A i \in 1..Len(requests) : requests[i].result = "ok"

\* C23: reordering is optimistic.  From the moment a drag-end has issued its
\* updates, all of them still pending, the state array holds the new order,
\* and it keeps it while the updates succeed or fail and after the await has
\* ended: nothing rolls the order back and nothing fetches it again (the
\* component not being mounted anew).
C23_OptimisticOrderStays ==
    (drags # <<>> /\ remounts = 0) =>
        /\ Ids(mem) = drags[Len(drags)].after
        /\ \A k \in 1..Len(drags) :
              /\ drags[k].after = Ids(arrayMove(
                      [i \in 1..Len(drags[k].before) |-> [id |-> drags[k].before[i]]],
                      findIndex([i \in 1..Len(drags[k].before) |-> [id |-> drags[k].before[i]]],
                                drags[k].active),
                      findIndex([i \in 1..Len(drags[k].before) |-> [id |-> drags[k].before[i]]],
                                drags[k].over)))
              /\ k < Len(drags) => drags[k + 1].before = drags[k].after

C23_Witness ==
    /\ Len(drags) = 1
    /\ remounts = 0
    /\ drags[1].after # drags[1].before
    /\ drags[1].promise # "pending"
    /\ \E i \in drags[1].first..drags[1].last : requests[i].result = "error"
    /\ \E i \in drags[1].first..drags[1].last : requests[i].result = "ok"
    /\ Ids(mem) = drags[1].after

\* C25 as claimed: two batches of position updates in flight together, every
\* update succeeded: once all have completed the stored positions are those of
\* one of the two batches.  Violated: each update is a request of its own and
\* the store applies them in the order they arrive.
C25_ConcurrentBatchesAtomic ==
    (/\ Len(drags) = 2
     /\ drags[2].overlapped
     /\ remounts = 0
     /\ AllSucceeded
     /\ \A k \in 1..2 : drags[k].promise # "pending")
        => \E k \in 1..2 :
              \A i \in 1..Len(drags[k].updates) :
                  store[view][drags[k].updates[i].id].position = drags[k].updates[i].position

----------------------------------------------------------------------------
(* Creating and deleting items: ListsView.handleCreate / handleDelete,     *)
(* AddAssetModal.handleSubmit with AssetListView.handleCreated, AssetCard. *)

\* `position integer default 0` of the lists and assets tables.
DefaultPosition == 0

\* The toast calls followed.
MaxToasts == 3

\* toast(text, type = 'error'): ToastContainer appends { id, text, type }.
toast(text, type) == [text |-> text, type |-> type]

\* The id the store gives the next inserted row (gen_random_uuid()).
NewId == <<"n1", "n2", "n3", "n4">>[Len(created) + 1]

\* insert(row) carried out by the store: one more row in the table.
insert(st, table, id, position) ==
    [st EXCEPT ![table] =
        [rid \in DOMAIN @ \cup {id} |->
            IF rid = id THEN [name |-> id, position |-> position] ELSE @[rid]]]

\* delete().eq('id', id) carried out by the store.
delete(st, table, id) ==
    [st EXCEPT ![table] = [rid \in DOMAIN @ \ {id} |-> @[rid]]]

\* The position of a row inserted by AddAssetModal: the insert names no
\* position, so the column default applies whatever the list holds.
assetInsertPosition(count) == Num(DefaultPosition)

InitCreate ==
    /\ view \in Views
    /\ store \in {InitialStore, TiedStore}
    /\ mem \in fetch(store, view)
    /\ drags = <<>>
    /\ remounts = 0
    /\ created = <<>>
    /\ toasts = <<>>
    /\ requests = <<>>
    /\ store0 = <<>> /\ batch = None /\ promise = "none"
    /\ IdleEarlier /\ IdleImport /\ IdlePages /\ IdleLogin

\* ListsView.handleCreate: position = lists.length, insert, then fetchLists.
HandleCreate(ok) ==
    /\ view = "lists"
    /\ Len(created) < MaxCreates
    /\ Len(toasts) < MaxToasts
    /\ LET position == Num(Len(mem))
       IN IF ok
          THEN /\ store' = insert(store, "lists", NewId, position)
               /\ created' = Append(created,
                     [table |-> "lists", id |-> NewId, position |-> position,
                      count |-> Cardinality(DOMAIN store["lists"])])
               /\ toasts' = Append(toasts, toast("List created", "success"))
               /\ mem' \in fetch(store', "lists")
          ELSE /\ toasts' = Append(toasts, toast("error.message", "error"))
               /\ UNCHANGED <<store, created, mem>>
    /\ UNCHANGED <<view, drags, remounts, store0, batch, requests, promise, earlierVars,
                   importVars, pageVars, loginVars>>

\* AddAssetModal.handleSubmit, and on success AssetListView.handleCreated,
\* which puts the new asset first in the state array.
HandleSubmit(ok) ==
    /\ view = "assets"
    /\ Len(created) < MaxCreates
    /\ Len(toasts) < MaxToasts
    /\ LET position == assetInsertPosition(Len(mem))
       IN IF ok
          THEN /\ store' = insert(store, "assets", NewId, position)
               /\ created' = Append(created,
                     [table |-> "assets", id |-> NewId, position |-> position,
                      count |-> Cardinality(DOMAIN store["assets"])])
               /\ toasts' = Append(toasts, toast("Resource added", "success"))
               /\ mem' = << [id |-> NewId, position |-> position] >> \o mem
          ELSE /\ toasts' = Append(toasts, toast("error.message", "error"))
               /\ UNCHANGED <<store, created, mem>>
    /\ UNCHANGED <<view, drags, remounts, store0, batch, requests, promise, earlierVars,
                   importVars, pageVars, loginVars>>

\* ListsView.handleDelete / AssetCard.handleDelete with
\* AssetListView.handleDelete: the row is deleted and leaves the state array.
HandleDelete(id, ok) ==
    /\ \E i \in 1..Len(mem) : mem[i].id = id
    /\ Len(toasts) < MaxToasts
    /\ IF ok
       THEN /\ store' = delete(store, view, id)
            /\ toasts' = Append(toasts, toast(IF view = "lists" THEN "List deleted"
                                                ELSE "Asset deleted", "success"))
            /\ mem' = SelectSeq(mem, LAMBDA row : row.id # id)
       ELSE /\ toasts' = Append(toasts, toast("error.message", "error"))
            /\ UNCHANGED <<store, mem>>
    /\ UNCHANGED <<view, drags, remounts, created, store0, batch, requests, promise,
                   earlierVars, importVars, pageVars, loginVars>>

NextCreate ==
    \/ \E ok \in BOOLEAN : HandleCreate(ok)
    \/ \E ok \in BOOLEAN : HandleSubmit(ok)
    \/ \E id \in DragIds(mem) : \E ok \in BOOLEAN : HandleDelete(id, ok)

SpecCreate == InitCreate /\ [][NextCreate]_vars

\* C14: every item created through the UI is stored with position equal to the
\* number of items its container held at the time of the insert.
C14_CreatedAtContainerLength ==
    \A c \in 1..Len(created) :
        /\ created[c].position = Num(created[c].count)
        /\ created[c].id \in DOMAIN store[created[c].table]
              => store[created[c].table][created[c].id].position = Num(created[c].count)

----------------------------------------------------------------------------
(* ListsView with its handlers together: creating, deleting and           *)
(* reordering lists in one session, on a vault whose positions are all     *)
(* different.                                                              *)

InitEdit ==
    /\ view = "lists"
    /\ store = InitialStore
    /\ mem \in fetch(store, view)
    /\ drags = <<>>
    /\ remounts = 0
    /\ created = <<>>
    /\ toasts = <<>>
    /\ requests = <<>>
    /\ store0 = <<>> /\ batch = None /\ promise = "none"
    /\ IdleEarlier /\ IdleImport /\ IdlePages /\ IdleLogin

NextEdit ==
    \/ \E ok \in BOOLEAN : HandleCreate(ok)
    \/ \E id \in DragIds(mem) : \E ok \in BOOLEAN : HandleDelete(id, ok)
    \/ \E active \in DragIds(mem) : \E over \in DragIds(mem) \cup {"null"} :
          HandleDragEnd(active, over)
    \/ \E i \in 1..Len(requests) : \E ok \in BOOLEAN : StoreAnswers(i, ok)
    \/ \E k \in 1..Len(drags) : SettleDrag(k)

SpecEdit == InitEdit /\ [][NextEdit]_vars

\* C24 as claimed: a drag-end whose persistence failed shows an error toast.
\* Violated: updatePositions drops the { error } of each request and
\* handleDragEnd has no toast call, so a failed reorder is silent.
C24_FailedDragShowsToast ==
    \A k \in 1..Len(drags) :
        (/\ drags[k].promise # "pending"
         /\ \E i \in drags[k].first..drags[k].last : requests[i].result = "error")
            => \E t \in 1..Len(toasts) : toasts[t].type = "error"

\* C26 as claimed: after list creations, deletions and drag-ends whose
\* requests all succeeded, no two lists have the same stored position.
\* Violated: handleCreate takes lists.length as the position, which is in use
\* as soon as a list other than the last one has been deleted.
C26_ListPositionsUnique ==
    (/\ view = "lists"
     /\ AllSucceeded
     /\ \A t \in 1..Len(toasts) : toasts[t].type = "success")
        => \A x, y \in DOMAIN store["lists"] :
              store["lists"][x].position = store["lists"][y].position => x = y

----------------------------------------------------------------------------
(* src/lib/vaultExport.ts: exportVault and importVault.                    *)
(*                                                                         *)
(* A list row is [name, tags, position], an asset row is [list_id, ticker, *)
(* image_url, position]; `ticker` stands for all the fields that are       *)
(* copied as they are (name, ticker, summary, description, tags,           *)
(* resources).  An exported asset is [ticker, image_url], image_url being  *)
(* "absent" when the key is left out.                                      *)

\* "Tech", "tech" and "Bio"
NameTech == <<84, 101, 99, 104>>
NameTechLower == <<116, 101, 99, 104>>
NameBio == <<66, 105, 111>>

EmptyVault == [t \in Tables |-> <<>>]

\* A vault with two lists at positions 0 and 1, the first with two assets.
MergeVault ==
    [t \in Tables |->
        IF t = "lists"
        THEN [id \in {"p1", "p2"} |->
                IF id = "p1" THEN [name |-> NameTech, tags |-> <<"t">>, position |-> Num(0)]
                ELSE [name |-> NameBio, tags |-> <<>>, position |-> Num(1)]]
        ELSE [id \in {"pa1", "pa2"} |->
                [list_id |-> "p1", ticker |-> IF id = "pa1" THEN "A" ELSE "B",
                 image_url |-> "null",
                 position |-> IF id = "pa1" THEN Num(0) ELSE Num(1)]]]

\* A vault after deletions and drags: one list at position 3, its assets at 0 and 4.
SparseVault ==
    [t \in Tables |->
        IF t = "lists"
        THEN [id \in {"p1"} |-> [name |-> NameTechLower, tags |-> <<>>, position |-> Num(3)]]
        ELSE [id \in {"pa1", "pa2"} |->
                [list_id |-> "p1", ticker |-> IF id = "pa1" THEN "B" ELSE "A",
                 image_url |-> IF id = "pa1" THEN "u" ELSE "null",
                 position |-> IF id = "pa1" THEN Num(0) ELSE Num(4)]]]

ImportVaults == {EmptyVault, MergeVault, SparseVault}

ExportedAssets == { [ticker |-> "A", image_url |-> "absent"], [ticker |-> "B", image_url |-> "u"] }

\* The asset arrays of an exported list.
AssetBatches ==
    { <<>> } \cup { <<a>> : a \in ExportedAssets }
    \cup { p \in { <<a, b>> : a \in ExportedAssets, b \in ExportedAssets } : p[1] # p[2] }

ExportedLists ==
    { [name |-> nt[1], tags |-> nt[2], assets |-> as] :
        nt \in { <<NameTech, <<>> >>, <<NameTechLower, <<"t">> >>, <<NameBio, <<"t", "u">> >> },
        as \in AssetBatches }

\* The `lists` of the files given to importVault.
ImportData == UNION { [1..k -> ExportedLists] : k \in 0..MaxImportLists }

\* The ids the store gives inserted rows.
NewListId(k) == <<"L1", "L2", "L3", "L4", "L5", "L6">>[k]
NewAssetId(k) ==
    <<"A1", "A2", "A3", "A4", "A5", "A6", "A7", "A8", "A9", "A10", "A11", "A12">>[k]

RECURSIVE SortedOrders(_, _)
\* The orders of the ids S by ascending position; equal positions in any order.
SortedOrders(S, rows) ==
    IF S = {} THEN { <<>> }
    ELSE UNION { { <<m>> \o rest : rest \in SortedOrders(S \ {m}, rows) } :
                 m \in { x \in S : \A y \in S : ~Less(rows[y].position, rows[x].position) } }

AssetsOf(st, listId) == { a \in DOMAIN st["assets"] : st["assets"][a].list_id = listId }

\* a => ({ ..., ...(a.image_url ? { image_url: a.image_url } : {}) })
exportAsset(row) ==
    [ticker |-> row.ticker,
     image_url |-> IF row.image_url \in {"null", ""} THEN "absent" ELSE row.image_url]

\* One exported list: its assets are read ordered by position, rows with
\* equal positions in any order.
exportList(st, l) ==
    { [name |-> st["lists"][l].name,
       tags |-> st["lists"][l].tags,
       assets |-> [j \in 1..Len(ao) |-> exportAsset(st["assets"][ao[j]])]] :
      ao \in SortedOrders(AssetsOf(st, l), st["assets"]) }

RECURSIVE exportListsInOrder(_, _)
exportListsInOrder(st, lo) ==
    IF lo = <<>> THEN { <<>> }
    ELSE { <<h>> \o t : h \in exportList(st, Head(lo)),
                        t \in exportListsInOrder(st, Tail(lo)) }

\* exportVault(db, vaultHash): the `lists` of the payload.  The lists are read
\* ordered by position, rows with equal positions in any order.
exportLists(st) ==
    UNION { exportListsInOrder(st, lo) : lo \in SortedOrders(DOMAIN st["lists"], st["lists"]) }

\* existingByName: the lower-cased names of the existing lists, each with the
\* id of the list that has it.
existingByName(st) ==
    [key \in { toLowerCase(st["lists"][l].name) : l \in DOMAIN st["lists"] } |->
        CHOOSE l \in DOMAIN st["lists"] : toLowerCase(st["lists"][l].name) = key]

RECURSIVE MaxPlusOne(_, _, _)
\* for (const l of existingLists) if (l.position >= next) next = l.position + 1
MaxPlusOne(S, rows, next) ==
    IF S = {} THEN next
    ELSE LET l == CHOOSE x \in S : TRUE
             p == rows[l].position
         IN MaxPlusOne(S \ {l}, rows, IF ~Less(p, next) THEN Plus(p, Num(1)) ELSE next)

\* existingByName.get(list.name.toLowerCase()): the map is filled before the
\* loop and not changed by it.
matchOf(byName, name) ==
    IF toLowerCase(name) \in DOMAIN byName THEN byName[toLowerCase(name)] ELSE "none"

\* Every imported asset of a batch at the same position.
assetRowsOnePosition(listId, assets, next) ==
    [j \in 1..Len(assets) |->
        [list_id |-> listId, ticker |-> assets[j].ticker,
         image_url |-> IF assets[j].image_url \in {"absent", ""} THEN "null"
                       ELSE assets[j].image_url,
         position |-> next]]

\* list.assets.map(a => ({ list_id, ..., image_url: a.image_url || null,
\*                         position: nextAssetPosition++ }))
assetRows(listId, assets, next) ==
    [j \in 1..Len(assets) |->
        [list_id |-> listId, ticker |-> assets[j].ticker,
         image_url |-> IF assets[j].image_url \in {"absent", ""} THEN "null"
                       ELSE assets[j].image_url,
         position |-> Plus(next, Num(j - 1))]]

\* lastAsset?.[0]?.position != null ? lastAsset[0].position + 1 : 0, lastAsset
\* being the row of the list with the highest position, or null after an error.
nextAssetPositionOf(st, listId, ok) ==
    IF ok /\ AssetsOf(st, listId) # {}
    THEN MaxPlusOne(AssetsOf(st, listId), st["assets"], Num(0))
    ELSE Num(0)

\* importVault has not been called yet: its arguments.
ImportCall(data, round) ==
    [pc |-> "readLists", data |-> data, round |-> round, i |-> 1,
     byName |-> <<>>, nextListPosition |-> Num(0),
     listId |-> "none", nextAssetPosition |-> Num(0),
     lastAssetErrors |-> 0,
     listsImported |-> 0, assetsImported |-> 0]

InitImport ==
    /\ store \in ImportVaults
    /\ store0 = store
    /\ imp \in { ImportCall(data, 1) : data \in ImportData }
    /\ exported = None
    /\ batch = None /\ requests = <<>> /\ promise = "none"
    /\ IdleEarlier /\ IdleSession /\ IdlePages /\ IdleLogin

\* Where the loop goes after the list at index i is done.
AfterList(i) == IF i < Len(imp.data) THEN "list" ELSE "returned"

\* The select of the existing lists (lines 163-175).
ImportReadLists(ok) ==
    /\ imp.pc = "readLists"
    /\ imp' = IF ok
              THEN [imp EXCEPT !.byName = existingByName(store),
                               !.nextListPosition =
                                   MaxPlusOne(DOMAIN store["lists"], store["lists"], Num(0)),
                               !.pc = IF Len(imp.data) = 0 THEN "returned" ELSE "list"]
              ELSE [imp EXCEPT !.pc = "thrown"]
    /\ UNCHANGED <<store, store0, exported, batch, requests, promise, earlierVars, sessionVars, pageVars, loginVars>>

\* One turn of the loop up to its assets: the list is matched by name, or
\* inserted (lines 177-202).
ImportList(ok) ==
    /\ imp.pc = "list"
    /\ LET list == imp.data[imp.i]
           match == matchOf(imp.byName, list.name)
           id == NewListId(imp.listsImported + 1)
           next == IF Len(list.assets) > 0 THEN "readLast" ELSE AfterList(imp.i)
           step == IF Len(list.assets) > 0 THEN imp.i ELSE imp.i + 1
       IN IF match # "none"
          THEN /\ imp' = [imp EXCEPT !.listId = match, !.pc = next, !.i = step]
               /\ store' = store
          ELSE IF ok
          THEN /\ store' = [store EXCEPT !["lists"] =
                              [l \in DOMAIN @ \cup {id} |->
                                  IF l = id
                                  THEN [name |-> list.name, tags |-> list.tags,
                                        position |-> imp.nextListPosition]
                                  ELSE @[l]]]
               /\ imp' = [imp EXCEPT !.listId = id, !.pc = next, !.i = step,
                                     !.listsImported = @ + 1,
                                     !.nextListPosition = Plus(@, Num(1))]
          ELSE /\ imp' = [imp EXCEPT !.pc = "thrown"]
               /\ store' = store
    /\ UNCHANGED <<store0, exported, batch, requests, promise, earlierVars, sessionVars, pageVars, loginVars>>

\* The select of the highest asset position of the target list; its error
\* is not looked at (lines 204-213).
ImportReadLastAsset(ok) ==
    /\ imp.pc = "readLast"
    /\ imp' = [imp EXCEPT !.nextAssetPosition = nextAssetPositionOf(store, imp.listId, ok),
                          !.lastAssetErrors = IF ok THEN @ ELSE 1,
                          !.pc = "insertAssets"]
    /\ UNCHANGED <<store, store0, exported, batch, requests, promise, earlierVars, sessionVars, pageVars, loginVars>>

\* The insert of the assets of the list (lines 215-230).
ImportInsertAssets(ok) ==
    /\ imp.pc = "insertAssets"
    /\ LET list == imp.data[imp.i]
           rows == assetRows(imp.listId, list.assets, imp.nextAssetPosition)
           ids == { NewAssetId(imp.assetsImported + j) : j \in 1..Len(rows) }
       IN IF ok
          THEN /\ store' = [store EXCEPT !["assets"] =
                              [a \in DOMAIN @ \cup ids |->
                                  IF a \in ids
                                  THEN rows[CHOOSE j \in 1..Len(rows) :
                                                a = NewAssetId(imp.assetsImported + j)]
                                  ELSE @[a]]]
               /\ imp' = [imp EXCEPT !.assetsImported = @ + Len(rows),
                                     !.pc = AfterList(imp.i), !.i = @ + 1]
          ELSE /\ imp' = [imp EXCEPT !.pc = "thrown"]
               /\ store' = store
    /\ UNCHANGED <<store0, exported, batch, requests, promise, earlierVars, sessionVars, pageVars, loginVars>>

\* The import has returned: the vault is exported, and the export is imported
\* into a second, empty vault.
ExportAndImportAgain ==
    /\ imp.pc = "returned"
    /\ imp.round = 1
    /\ \E lists \in exportLists(store) :
          /\ exported' = [status |-> "exported", lists |-> lists, source |-> imp.data,
                          intoEmpty |-> store0 = EmptyVault]
          /\ imp' = ImportCall(lists, 2)
    /\ store' = EmptyVault
    /\ store0' = EmptyVault
    /\ UNCHANGED <<batch, requests, promise, earlierVars, sessionVars, pageVars, loginVars>>

NextImport ==
    \/ \E ok \in BOOLEAN : ImportReadLists(ok)
    \/ \E ok \in BOOLEAN : ImportList(ok)
    \/ \E ok \in BOOLEAN : ImportReadLastAsset(ok)
    \/ \E ok \in BOOLEAN : ImportInsertAssets(ok)
    \/ ExportAndImportAgain

SpecImport == InitImport /\ [][NextImport]_vars

LowerNames(st) == { toLowerCase(st["lists"][l].name) : l \in DOMAIN st["lists"] }

\* No two lists of the vault have the same name, compared case-insensitively.
NoTwoListsWithOneName(st) ==
    \A l, m \in DOMAIN st["lists"] :
        toLowerCase(st["lists"][l].name) = toLowerCase(st["lists"][m].name) => l = m

\* The first import (not the re-import of the round trip) is under way or over.
FirstImport == imp # None /\ imp.round = 1

\* C15 (as claimed): for any import data and any vault that had no two lists
\* with one case-insensitive name, the vault still has at most one list per
\* name after the import, every list that existed keeps its id, and the
\* assets of an imported list whose name matches an existing list go to that
\* list.  Violated: the name map is built before the loop and never gets the
\* lists the loop creates, so two lists of the file with one name and no
\* match in the vault are both created.
C15_ImportKeepsOneListPerName ==
    (FirstImport /\ NoTwoListsWithOneName(store0)) =>
        /\ NoTwoListsWithOneName(store)
        /\ \A l \in DOMAIN store0["lists"] :
              l \in DOMAIN store["lists"] /\ store["lists"][l].name = store0["lists"][l].name
        /\ (imp.pc \in {"readLast", "insertAssets"}
            /\ toLowerCase(imp.data[imp.i].name) \in LowerNames(store0)) =>
              /\ imp.listId \in DOMAIN store0["lists"]
              /\ toLowerCase(store0["lists"][imp.listId].name)
                     = toLowerCase(imp.data[imp.i].name)
        /\ \A a \in DOMAIN store["assets"] :
              store["assets"][a].list_id \in DOMAIN store["lists"]

\* C15 (supporting): the parts of the claim other than the one name per list
\* hold, and the one name per list holds for files whose lists have distinct
\* names.
C15_MergesIntoExistingLists ==
    (FirstImport /\ NoTwoListsWithOneName(store0)) =>
        /\ (\A x, y \in 1..Len(imp.data) :
               toLowerCase(imp.data[x].name) = toLowerCase(imp.data[y].name) => x = y)
              => NoTwoListsWithOneName(store)
        /\ \A l \in DOMAIN store0["lists"] :
              l \in DOMAIN store["lists"] /\ store["lists"][l].name = store0["lists"][l].name
        /\ (imp.pc \in {"readLast", "insertAssets"}
            /\ toLowerCase(imp.data[imp.i].name) \in LowerNames(store0)) =>
              /\ imp.listId \in DOMAIN store0["lists"]
              /\ toLowerCase(store0["lists"][imp.listId].name)
                     = toLowerCase(imp.data[imp.i].name)

NewLists == DOMAIN store["lists"] \ DOMAIN store0["lists"]
NewAssets == DOMAIN store["assets"] \ DOMAIN store0["assets"]

\* The new rows S have the consecutive positions first, first + 1, ...
ConsecutiveFrom(S, rows, first) ==
    { rows[x].position : x \in S } = { Plus(first, Num(k)) : k \in 0..(Cardinality(S) - 1) }

\* What the claim says of the positions after an import.
OnlyAppends ==
    /\ ConsecutiveFrom(NewLists, store["lists"],
                       MaxPlusOne(DOMAIN store0["lists"], store0["lists"], Num(0)))
    /\ \A l \in DOMAIN store["lists"] :
          LET new == { a \in NewAssets : store["assets"][a].list_id = l }
          IN /\ ConsecutiveFrom(new, store["assets"],
                                MaxPlusOne(AssetsOf(store0, l), store0["assets"], Num(0)))
             /\ Cardinality({ store["assets"][a].position : a \in new }) = Cardinality(new)
    /\ \A l \in DOMAIN store0["lists"] :
          l \in DOMAIN store["lists"]
          /\ store["lists"][l].position = store0["lists"][l].position
    /\ \A a \in DOMAIN store0["assets"] :
          a \in DOMAIN store["assets"]
          /\ store["assets"][a].position = store0["assets"][a].position

\* C16 (as claimed): after an import, the created lists have the consecutive
\* positions after the highest position of the lists that existed (from 0 in
\* an empty vault), the imported assets of each list the consecutive positions
\* after the highest position of the assets the list had (from 0), and no
\* position of a row that existed has changed.  Violated: the result of the
\* read of the highest asset position is used without a look at its error,
\* so after a failed read the imported assets are numbered from 0.
C16_ImportOnlyAppends ==
    (FirstImport /\ imp.pc = "returned") => OnlyAppends

\* C16 (supporting): the positions are as claimed when every read of the
\* highest asset position succeeded.
C16_AppendsWhenReadsSucceed ==
    (FirstImport /\ imp.pc = "returned" /\ imp.lastAssetErrors = 0) => OnlyAppends

\* C17: a vault export imported into an empty vault and read back in position
\* order gives the lists of the export, with their names, tags and assets in
\* the order of the export; the export of that vault, imported into a second
\* empty vault, gives the same lists again.
C17_RoundTripKeepsListContent ==
    (imp # None /\ imp.pc = "returned" /\ store0 = EmptyVault) =>
        /\ exportLists(store) = {imp.data}
        /\ imp.round = 2 =>
              /\ imp.data = exported.lists
              /\ exported.intoEmpty => exportLists(store) = {exported.source}

\* A second round trip is over, of a file of two lists, one with two assets.
C17_Witness ==
    /\ imp # None /\ imp.pc = "returned" /\ imp.round = 2
    /\ exported.intoEmpty
    /\ Len(exported.source) = 2
    /\ \E i \in 1..2 : Len(exported.source[i].assets) = 2
    /\ exportLists(store) = {exported.source}

----------------------------------------------------------------------------
(* src/lib/fetchTitle.ts: fetchPageTitle.                                  *)
(*                                                                         *)
(* A text is a sequence of code units, as for hashSeedPhrase.  A value of  *)
(* type string | null is [null, text].                                     *)

MaxTitle == 2

\* "&#32;", the character reference of SPACE
SpaceReference == <<38, 35, 51, 50, 59>>

\* What the titles are made of: "a", " " and "&#32;".
TitlePieces == { <<97>>, <<32>>, SpaceReference }

RECURSIVE TextsOfPieces(_)
TextsOfPieces(k) ==
    IF k = 0 THEN { <<>> }
    ELSE { p \o t : p \in TitlePieces, t \in TextsOfPieces(k - 1) }

\* The texts of at most MaxTitle pieces.
Texts == UNION { TextsOfPieces(k) : k \in 0..MaxTitle }

Null == [null |-> TRUE, text |-> <<>>]
Str(text) == [null |-> FALSE, text |-> text]

\* if (v): neither null nor the empty string
truthy(v) == ~v.null /\ v.text # <<>>

RECURSIVE decodeEntities(_)
\* decodeEntities: the browser replaces the character references of the text.
decodeEntities(text) ==
    IF text = <<>> THEN <<>>
    ELSE IF Len(text) >= Len(SpaceReference)
            /\ SubSeq(text, 1, Len(SpaceReference)) = SpaceReference
    THEN <<32>> \o decodeEntities(SubSeq(text, Len(SpaceReference) + 1, Len(text)))
    ELSE <<Head(text)>> \o decodeEntities(Tail(text))

\* extractMeta, given the content attribute of the tag looked for (Null when
\* the page has no such tag): ([^"']+) needs one character at least.
extractMeta(content) ==
    IF truthy(content) THEN Str(decodeEntities(trim(content.text))) ELSE Null

\* extractTitle, the page being [og, twitter, metaTitle, title].
extractTitle(html) ==
    LET og == extractMeta(html.og)
        twitter == extractMeta(html.twitter)
        metaTitle == extractMeta(html.metaTitle)
        cleaned == Str(decodeEntities(trim(replaceWhitespaceRuns(html.title.text))))
    IN IF truthy(og) THEN og
       ELSE IF truthy(twitter) THEN twitter
       ELSE IF truthy(metaTitle) THEN metaTitle
       ELSE IF truthy(html.title) /\ truthy(cleaned) THEN cleaned
       ELSE Null

\* cleanTitle
cleanTitle(raw) == trim(replaceWhitespaceRuns(raw))

Rejected == [fulfilled |-> FALSE, value |-> <<>>]
Fulfilled(value) == [fulfilled |-> TRUE, value |-> value]

\* tryMicrolink / tryJsonLink, given what fetch does.
tryJson(res) ==
    IF res.kind # "ok" THEN Rejected
    ELSE IF res.status # "success" THEN Rejected
    ELSE LET t == IF res.title.null THEN Null ELSE Str(trim(res.title.text))
         IN IF ~truthy(t) THEN Rejected ELSE Fulfilled(cleanTitle(t.text))

\* tryAllOrigins / tryCorsProxy / tryCodeTabs / tryDirect, given what fetch does.
tryHtml(res) ==
    IF res.kind # "ok" THEN Rejected
    ELSE LET t == extractTitle(res.html)
         IN IF ~truthy(t) THEN Rejected ELSE Fulfilled(cleanTitle(t.text))

JsonStrategies == {"microlink", "jsonlink"}
HtmlStrategies == {"allorigins", "corsproxy", "codetabs", "direct"}
Strategies == JsonStrategies \cup HtmlStrategies

OptTexts == {Null} \cup { Str(t) : t \in Texts }

\* fetch rejected, or answered with a status that is not ok
Failures == { [kind |-> "networkError"], [kind |-> "badStatus"] }

\* What fetch can do for a strategy.  jsonlink has no status field of its
\* own: its body counts as "success".
Responses(s) ==
    IF s \in JsonStrategies
    THEN Failures \cup
         { [kind |-> "ok", status |-> st, title |-> t] :
             st \in (IF s = "microlink" THEN {"success", "error"} ELSE {"success"}),
             t \in OptTexts }
    ELSE Failures \cup
         { [kind |-> "ok",
            html |-> [og |-> og, twitter |-> tm[1], metaTitle |-> tm[2], title |-> t]] :
             og \in OptTexts, t \in OptTexts,
             tm \in { <<Null, Null>>, <<Str(<<97>>), Null>>, <<Null, Str(<<97>>)>> } }

try(s, res) == IF s \in JsonStrategies THEN tryJson(res) ELSE tryHtml(res)

\* How each strategy can settle when fetch answers it: with what it makes of
\* one of its responses.
Outcomes == [s \in Strategies |-> { try(s, res) : res \in Responses(s) }]

InitTitle ==
    /\ title = [pc |-> "start", value |-> Null, parentAtCall |-> "none"]
    /\ strategies = <<>>
    /\ any = None
    /\ firstValid = None
    /\ controller = "none"
    /\ timeout = "none"
    /\ listener = "none"
    /\ parentSignal \in {"absent", "live", "aborted"}
    /\ IdleEarlier /\ IdlePersist /\ IdleSession /\ IdleImport /\ IdleShared /\ IdleLogin

otherVarsOfTitle == <<earlierVars, persistVars, sessionVars, importVars, shared, loginVars>>

\* fetchPageTitle up to its await (lines 163-179): the controller, the timer,
\* the listener, and the six strategies started.
FetchPageTitle ==
    /\ title.pc = "start"
    /\ controller' = "live"
    /\ timeout' = "armed"
    /\ listener' = IF parentSignal = "absent" THEN "none" ELSE "added"
    /\ strategies' = [s \in Strategies |-> "pending"]
    /\ any' = [status |-> "pending"]
    /\ title' = [title EXCEPT !.pc = "awaiting", !.parentAtCall = parentSignal]
    /\ UNCHANGED <<firstValid, parentSignal, otherVarsOfTitle>>

\* Promise.any after one more of its promises has settled.
PromiseAny(settled, s, outcome) ==
    IF any.status # "pending" THEN any
    ELSE IF outcome.fulfilled
    THEN [status |-> "fulfilled", strategy |-> s, value |-> outcome.value]
    ELSE IF \A r \in Strategies : settled[r] = "rejected" THEN [status |-> "rejected"]
    ELSE any

\* The promise of strategy s settles with `outcome`.
Settles(s, outcome) ==
    /\ strategies' = [strategies EXCEPT ![s] = IF outcome.fulfilled THEN "fulfilled"
                                                ELSE "rejected"]
    /\ any' = PromiseAny(strategies', s, outcome)
    /\ firstValid' = IF firstValid = None /\ outcome.fulfilled /\ outcome.value # <<>>
                     THEN [status |-> "found", strategy |-> s, value |-> outcome.value]
                     ELSE firstValid

\* fetch answers strategy s, and the strategy runs to its end.
StrategyAnswered(s, outcome) ==
    /\ title.pc \in {"awaiting", "returned"}
    /\ strategies[s] = "pending"
    /\ Settles(s, outcome)
    /\ UNCHANGED <<title, controller, timeout, listener, parentSignal, otherVarsOfTitle>>

\* The signal is aborted: the fetch of strategy s, or the read of its body,
\* rejects with an AbortError.
StrategyAborted(s) ==
    /\ title.pc \in {"awaiting", "returned"}
    /\ strategies[s] = "pending"
    /\ controller = "aborted"
    /\ Settles(s, Rejected)
    /\ UNCHANGED <<title, controller, timeout, listener, parentSignal, otherVarsOfTitle>>

\* setTimeout(() => controller.abort(), 8000)
TimeoutFires ==
    /\ timeout = "armed"
    /\ timeout' = "fired"
    /\ controller' = "aborted"
    /\ UNCHANGED <<title, strategies, any, firstValid, listener, parentSignal, otherVarsOfTitle>>

\* The caller aborts parentSignal; onAbort runs if it is listening.
ParentAborts ==
    /\ parentSignal = "live"
    /\ parentSignal' = "aborted"
    /\ controller' = IF listener = "added" THEN "aborted" ELSE controller
    /\ UNCHANGED <<title, strategies, any, firstValid, timeout, listener, otherVarsOfTitle>>

\* fetchPageTitle after its await (lines 180-187).
TitleReturns ==
    /\ title.pc = "awaiting"
    /\ any.status # "pending"
    /\ IF any.status = "fulfilled"
       THEN /\ controller' = "aborted"
            /\ title' = [title EXCEPT !.pc = "returned", !.value = Str(any.value)]
       ELSE /\ controller' = controller
            /\ title' = [title EXCEPT !.pc = "returned", !.value = Null]
    /\ timeout' = "cleared"
    /\ listener' = IF listener = "added" THEN "removed" ELSE listener
    /\ UNCHANGED <<strategies, any, firstValid, parentSignal, otherVarsOfTitle>>

NextTitle ==
    \/ FetchPageTitle
    \/ \E s \in Strategies : \E outcome \in Outcomes[s] : StrategyAnswered(s, outcome)
    \/ \E s \in Strategies : StrategyAborted(s)
    \/ TimeoutFires
    \/ ParentAborts
    \/ TitleReturns

SpecTitle == InitTitle /\ [][NextTitle]_vars

\* fetchPageTitle has resolved to a string.
ReturnedTitle == title # None /\ title.pc = "returned" /\ ~title.value.null

\* C18 (as claimed): fetchPageTitle resolves to the title of the first
\* strategy that fulfils with a non-empty title, whatever the other
\* strategies do and in whatever order, and the shared signal is aborted once
\* that winner is known.  Violated: a strategy on HTML checks its title
\* before cleanTitle, so it can fulfil with the empty string, and Promise.any
\* takes the first fulfilment whatever its value.
C18_FirstValidTitleWins ==
    ReturnedTitle =>
        /\ firstValid # None
        /\ title.value.text = firstValid.value
        /\ controller = "aborted"

\* C18 (supporting): fetchPageTitle resolves to the value of the first
\* strategy that fulfilled, and has aborted the shared signal by then.
C18_FirstFulfilmentWins ==
    ReturnedTitle =>
        /\ any.status = "fulfilled"
        /\ strategies[any.strategy] = "fulfilled"
        /\ title.value.text = any.value
        /\ controller = "aborted"
        /\ (firstValid # None /\ any.value # <<>>) =>
              firstValid.strategy = any.strategy /\ firstValid.value = any.value

\* The timer is cleared and the listener on parentSignal, if there is a
\* parentSignal, is removed.
CleanedUp ==
    /\ timeout = "cleared"
    /\ listener = (IF parentSignal = "absent" THEN "none" ELSE "removed")

\* C19 (as claimed): fetchPageTitle never rejects; it resolves to null exactly
\* when every strategy has failed and to a non-empty string otherwise, and in
\* every outcome the timer is cleared and the listener on parentSignal is
\* removed before it returns.  Violated: the string can be empty.
C19_NullOrNonEmptyTitle ==
    title # None =>
        /\ title.pc \in {"start", "awaiting", "returned"}
        /\ title.pc = "returned" =>
              /\ title.value.null <=> \A s \in Strategies : strategies[s] = "rejected"
              /\ ~title.value.null => title.value.text # <<>>
              /\ CleanedUp

\* C19 (supporting): the same without the non-empty string.
C19_NullIffAllFailedAndCleanedUp ==
    title # None =>
        /\ title.pc \in {"start", "awaiting", "returned"}
        /\ title.pc = "returned" =>
              /\ title.value.null <=> \A s \in Strategies : strategies[s] = "rejected"
              /\ CleanedUp

\* C28 (as claimed): whenever parentSignal is aborted, already at the call or
\* while the strategies are in flight, the signal given to the strategies is
\* aborted too, without the wait for the timer.  Violated: the listener is
\* added to a signal whose abort event has already been dispatched, and
\* parentSignal.aborted is not read.
C28_ParentAbortPropagates ==
    (title # None /\ title.pc = "awaiting" /\ parentSignal = "aborted")
        => controller = "aborted"

\* C28 (supporting): an abort of parentSignal during the call aborts the
\* signal of the strategies.
C28_AbortInFlightPropagates ==
    (title # None /\ title.pc = "awaiting" /\ parentSignal = "aborted"
        /\ title.parentAtCall = "live") => controller = "aborted"

----------------------------------------------------------------------------
(* src/pages/SharedVaultPage.tsx: a vault opened through a share key.      *)

\* The props SharedVaultPage gives ListsView: <ListsView db vaultHash readOnly />
SharedProps(hash) == [db |-> hash, vaultHash |-> hash, readOnly |-> TRUE]

\* function ListsView({ db, vaultHash }: Props): the props the component reads.
ListsViewProps(props) == [db |-> props.db, vaultHash |-> props.vaultHash]

InitShared ==
    /\ shared = [resolving |-> TRUE, error |-> FALSE, vaultHash |-> "null", props |-> None]
    /\ store \in {InitialStore, TiedStore}
    /\ store0 = store
    /\ view = "none"
    /\ mem = <<>>
    /\ drags = <<>>
    /\ remounts = 0
    /\ created = <<>>
    /\ toasts = <<>>
    /\ requests = <<>>
    /\ batch = None /\ promise = "none"
    /\ IdleEarlier /\ IdleImport /\ IdleTitle /\ IdleLogin

\* The effect of SharedVaultPage: the share key is looked up in vault_shares.
ResolveShare(found) ==
    /\ shared.resolving
    /\ shared' = IF found
                 THEN [shared EXCEPT !.resolving = FALSE, !.vaultHash = "vault"]
                 ELSE [shared EXCEPT !.resolving = FALSE, !.error = TRUE]
    /\ UNCHANGED <<earlierVars, persistVars, sessionVars, importVars, titleVars, loginVars>>

\* The page renders ListsView, which fetches the lists of the vault.
RenderListsView ==
    /\ ~shared.resolving /\ ~shared.error /\ shared.vaultHash # "null"
    /\ view = "none"
    /\ shared' = [shared EXCEPT !.props = ListsViewProps(SharedProps(shared.vaultHash))]
    /\ view' = "lists"
    /\ mem' \in fetch(store, "lists")
    /\ UNCHANGED <<drags, remounts, created, toasts, earlierVars, persistVars, importVars, titleVars, loginVars>>

\* ListsView.handleUpdateList: the name and tags of a list are written.
HandleUpdateList(id, ok) ==
    /\ view = "lists"
    /\ id \in DOMAIN store["lists"]
    /\ Len(toasts) < MaxToasts
    /\ store' = IF ok THEN [store EXCEPT !["lists"][id].name = "renamed"] ELSE store
    /\ toasts' = Append(toasts, IF ok THEN toast("List updated", "success")
                                 ELSE toast("error.message", "error"))
    /\ UNCHANGED <<store0, batch, requests, promise, view, mem, drags, remounts, created,
                   earlierVars, importVars, pageVars, loginVars>>

\* The writes the session has made: drag-ends, creations, and the lists it
\* has renamed or deleted.
SharedWrites ==
    Len(drags) + Len(created)
    + Cardinality({ id \in DOMAIN store0["lists"] :
                      \/ id \notin DOMAIN store["lists"]
                      \/ store["lists"][id].name # store0["lists"][id].name })

\* The handlers of ListsView as the shared page renders it.
NextShared ==
    \/ \E found \in BOOLEAN : ResolveShare(found)
    \/ RenderListsView
    \/ \E ok \in BOOLEAN : SharedWrites < MaxEvents /\ HandleCreate(ok)
    \/ \E id \in DragIds(mem) : \E ok \in BOOLEAN :
          SharedWrites < MaxEvents /\ HandleUpdateList(id, ok)
    \/ \E id \in DragIds(mem) : \E ok \in BOOLEAN :
          SharedWrites < MaxEvents /\ HandleDelete(id, ok)
    \/ \E active \in DragIds(mem) : \E over \in DragIds(mem) \cup {"null"} :
          SharedWrites < MaxEvents /\ HandleDragEnd(active, over)
    \/ \E i \in 1..Len(requests) : \E ok \in BOOLEAN : StoreAnswers(i, ok)
    \/ \E k \in 1..Len(drags) : SettleDrag(k)

SpecShared == InitShared /\ [][NextShared]_vars

\* C20: a vault opened through a share key is read-only: the session on
\* /shared/:shareHash has no action that creates, edits, deletes or reorders,
\* so it never issues an insert, update or delete against the vault.
\* Violated: ListsView takes `db` and `vaultHash` from its props and nothing
\* else, so the `readOnly` the page passes changes nothing of what it renders.
C20_SharedSessionIssuesNoWrite ==
    shared # None => (requests = <<>> /\ created = <<>> /\ store = store0)

----------------------------------------------------------------------------
(* src/pages/LandingPage.tsx and src/pages/VaultPage.tsx, in the two       *)
(* versions the repository holds: the one that keeps the vault hash in     *)
(* sessionStorage only ("LandingPage.tsx"), and the one with "Remember me" *)
(* and share keys ("part_009").  One browser tab.                          *)

Builds == {"LandingPage.tsx", "part_009"}

\* The handleAccessVault calls followed.
MaxAccess == 2

\* const HEX_64 = /^[0-9a-f]{64}$/i
HEX_64(input) ==
    /\ Len(input) = 64
    /\ \A i \in 1..Len(input) : input[i] \in (48..57) \cup (97..102) \cup (65..70)

\* input.split(/\s+/).filter(Boolean)
splitWords(input) ==
    SelectSeq(split(replaceWhitespaceRuns(input), 32), LAMBDA w : w # <<>>)

\* What the user types: twelve words (two vaults, the second one typed
\* untidily), three words, thirteen words, a share key, and blanks.
PhraseA == Render(BaseWords(SeedWords, 1), "plain")
PhraseB == Render(BaseWords(SeedWords, 2), "messy")
ShareKey == HexToken(1, 0)
TypedPhrases ==
    { PhraseA, PhraseB, Render(BaseWords(3, 1), "plain"),
      Render(BaseWords(SeedWords + 1, 1), "padded"), ShareKey, <<32, 32>> }

\* hashSeedPhrase on each of them.
Hashed == [p \in TypedPhrases |-> hashSeedPhrase(p)]

HashA == Hashed[PhraseA].value
HashB == Hashed[PhraseB].value

Landing == [page |-> "landing", param |-> <<>>]
VaultRoute(hash) == [page |-> "vault", param |-> hash]
SharedRoute(shareHash) == [page |-> "shared", param |-> shareHash]

\* The addresses the user opens by hand.
Urls == { Landing, VaultRoute(HashA), VaultRoute(HashB) }

EmptySession == [vault_hash |-> Null]
EmptyLocal == [vault_hash_persistent |-> Null, vault_remember |-> Null]

\* vaultClient(vaultHash): a client that sends the hash as x-vault-hash.
vaultClient(hash) == [x_vault_hash |-> hash]

\* VaultPage: const storedHash = ...
storedHash(b, ss, ls) ==
    IF b = "part_009"
    THEN (IF truthy(ss.vault_hash) THEN ss.vault_hash ELSE ls.vault_hash_persistent)
    ELSE ss.vault_hash

\* VaultPage rendered for /vault/:hash: the client of useMemo, and whether
\* the page got past `if (!storedHash || !hash) return null`.
VaultPage(b, hash, ss, ls) ==
    [hash |-> hash,
     db |-> IF hash # <<>> THEN vaultClient(hash) ELSE None,
     content |-> truthy(storedHash(b, ss, ls)) /\ hash # <<>>]

\* navigate(r) or an address opened by hand: the page of the route is
\* mounted and its effects run (VaultPage goes to '/' without a stored hash,
\* the LandingPage of part_009 resumes a remembered vault).
Mount(b, r, ss, ls) ==
    LET shown(h, s) ==
            [route |-> VaultRoute(h), sessionStorage |-> s, vaultPage |-> VaultPage(b, h, s, ls)]
        landed(s) ==
            IF b = "part_009" /\ truthy(ls.vault_hash_persistent)
            THEN shown(ls.vault_hash_persistent.text,
                       [s EXCEPT !.vault_hash = ls.vault_hash_persistent])
            ELSE [route |-> Landing, sessionStorage |-> s, vaultPage |-> None]
    IN CASE r.page = "vault" ->
                IF VaultPage(b, r.param, ss, ls).content THEN shown(r.param, ss) ELSE landed(ss)
         [] r.page = "landing" -> landed(ss)
         [] OTHER -> [route |-> r, sessionStorage |-> ss, vaultPage |-> None]

\* The state of a LandingPage just mounted.
LandingState(b, ls) ==
    [hash |-> <<>>, isLoading |-> FALSE, inputError |-> "",
     remember |-> b = "part_009" /\ ls.vault_remember = Str(<<49>>)]

\* The router shows `r`: every variable the mounted page decides.
Shows(r, ss, ls) ==
    LET m == Mount(build, r, ss, ls)
    IN /\ route' = m.route
       /\ sessionStorage' = m.sessionStorage
       /\ localStorage' = ls
       /\ vaultPage' = m.vaultPage
       /\ landing' = IF m.route.page = "landing" THEN LandingState(build, ls) ELSE None

\* VaultPage.handleLock with the removeItem calls of the older version only.
handleLockSessionOnly(b, ss, ls) ==
    [sessionStorage |-> [ss EXCEPT !.vault_hash = Null], localStorage |-> ls]

\* VaultPage.handleLock: the storage it leaves.
handleLock(b, ss, ls) ==
    [sessionStorage |-> [ss EXCEPT !.vault_hash = Null],
     localStorage |-> IF b = "part_009" THEN EmptyLocal ELSE ls]

InitLogin ==
    /\ build \in Builds
    /\ route = Landing
    /\ sessionStorage = EmptySession
    /\ localStorage = EmptyLocal
    /\ landing = LandingState(build, EmptyLocal)
    /\ access = None
    /\ attempts = <<>>
    /\ vaultPage = None
    /\ sinceLock = "open"
    /\ IdleEarlier /\ IdlePersist /\ IdleSession /\ IdleImport /\ IdlePages

otherVarsOfLogin == <<earlierVars, persistVars, sessionVars, importVars, pageVars>>

\* What an attempt remembers of the state it started from; `mounted` tells
\* whether the user stayed on the page until the handler ended.
Stored == [route |-> route, sessionStorage |-> sessionStorage, localStorage |-> localStorage]

\* The checkbox "Remember me" of part_009.
SetRemember(checked) ==
    /\ build = "part_009"
    /\ landing # None
    /\ landing' = [landing EXCEPT !.remember = checked]
    /\ UNCHANGED <<build, route, sessionStorage, localStorage, access, attempts, vaultPage,
                   sinceLock, otherVarsOfLogin>>

\* The user has typed `phrase` and clicks "Access Vault" (the button is
\* disabled while !phrase.trim() || isLoading): handleAccessVault up to its
\* first await, or to its return when it does not get there.
HandleAccessVault(phrase) ==
    /\ landing # None
    /\ ~landing.isLoading
    /\ trim(phrase) # <<>>
    /\ access = None
    /\ Len(attempts) < MaxAccess
    /\ LET input == IF build = "part_009" THEN trim(phrase) ELSE phrase
           attempt == [input |-> phrase, words |-> wordCount(phrase), before |-> Stored,
                       remember |-> landing.remember, outcome |-> "pending",
                       digest |-> FALSE, message |-> "", isLoading |-> TRUE,
                       mounted |-> TRUE, after |-> Stored]
           awaiting(kind) ==
               /\ landing' = [landing EXCEPT !.isLoading = TRUE, !.inputError = ""]
               /\ access' = [kind |-> kind, input |-> input, remember |-> landing.remember,
                             mounted |-> TRUE, attempt |-> Len(attempts) + 1]
               /\ attempts' = Append(attempts, attempt)
       IN IF build = "part_009" /\ HEX_64(input)
          THEN awaiting("share")
          ELSE IF build = "part_009" /\ Len(splitWords(input)) # SeedWords
          THEN /\ landing' = [landing EXCEPT !.inputError =
                    "Enter a 12-word seed phrase or a 64-character share key."]
               /\ access' = None
               /\ attempts' = Append(attempts,
                    [attempt EXCEPT !.outcome = "returned", !.isLoading = FALSE,
                                    !.message = landing'.inputError])
          ELSE awaiting("seed")
    /\ UNCHANGED <<build, route, sessionStorage, localStorage, vaultPage, sinceLock,
                   otherVarsOfLogin>>

\* setIsLoading(false), setInputError(text): state updates of a component
\* that is no longer mounted do nothing.
AfterFinally(text) ==
    IF access.mounted /\ landing # None
    THEN [landing EXCEPT !.isLoading = FALSE, !.inputError = text]
    ELSE landing

\* The await of handleAccessVault ends: hashSeedPhrase has resolved or
\* rejected, or the lookup of the share key has answered.
AccessSettles(answer) ==
    /\ access # None
    /\ access.kind = "seed" => answer = "found"
    /\ LET k == access.attempt
           result == Hashed[attempts[k].input]
           finished(outcome, text, digested) ==
               attempts' = [attempts EXCEPT ![k] =
                   [@ EXCEPT !.outcome = outcome, !.message = text, !.digest = digested,
                             !.mounted = access.mounted,
                             !.isLoading = (landing' # None /\ landing'.isLoading),
                             !.after = [route |-> route', sessionStorage |-> sessionStorage',
                                        localStorage |-> localStorage']]]
       IN IF access.kind = "seed" /\ result.status = "resolved"
          THEN /\ Shows(VaultRoute(result.value),
                        [sessionStorage EXCEPT !.vault_hash = Str(result.value)],
                        IF build # "part_009" THEN localStorage
                        ELSE IF access.remember
                        THEN [vault_hash_persistent |-> Str(result.value),
                              vault_remember |-> Str(<<49>>)]
                        ELSE EmptyLocal)
               /\ sinceLock' = "open"
               /\ finished("navigated", "", TRUE)
          ELSE IF access.kind = "seed"
          THEN /\ landing' = AfterFinally(IF landing = None THEN "" ELSE landing.inputError)
               /\ UNCHANGED <<route, sessionStorage, localStorage, vaultPage, sinceLock>>
               /\ finished("unhandled rejection", "", FALSE)
          ELSE IF answer = "found"
          THEN /\ Shows(SharedRoute(access.input), sessionStorage, localStorage)
               /\ sinceLock' = IF sinceLock = "locked" THEN "away" ELSE sinceLock
               /\ finished("navigated", "", FALSE)
          ELSE LET text == IF answer = "notfound"
                           THEN "Share key not found. Only existing share keys are accepted."
                           ELSE "Failed to verify share key. Please try again."
               IN /\ landing' = AfterFinally(text)
                  /\ UNCHANGED <<route, sessionStorage, localStorage, vaultPage, sinceLock>>
                  /\ finished("returned", IF access.mounted /\ landing # None THEN text ELSE "",
                              FALSE)
    /\ access' = None
    /\ UNCHANGED <<build, otherVarsOfLogin>>

\* The user opens an address of the application (or goes back to it).
OpenUrl(r) ==
    /\ Shows(r, sessionStorage, localStorage)
    /\ access' = IF access = None THEN None ELSE [access EXCEPT !.mounted = FALSE]
    /\ sinceLock' = IF sinceLock = "locked" THEN "away" ELSE sinceLock
    /\ UNCHANGED <<build, attempts, otherVarsOfLogin>>

\* The Lock button of VaultPage.
HandleLock ==
    /\ vaultPage # None
    /\ vaultPage.content
    /\ LET left == handleLock(build, sessionStorage, localStorage)
       IN Shows(Landing, left.sessionStorage, left.localStorage)
    /\ sinceLock' = "locked"
    /\ UNCHANGED <<build, access, attempts, otherVarsOfLogin>>

NextLogin ==
    \/ \E checked \in BOOLEAN : SetRemember(checked)
    \/ \E phrase \in TypedPhrases : HandleAccessVault(phrase)
    \/ \E answer \in {"found", "notfound", "throws"} : AccessSettles(answer)
    \/ \E r \in Urls : OpenUrl(r)
    \/ HandleLock

SpecLogin == InitLogin /\ [][NextLogin]_vars

\* C21: from handleLock until a seed phrase has been hashed again, no copy of
\* the vault hash is stored (sessionStorage vault_hash, localStorage
\* vault_hash_persistent and vault_remember), VaultPage shows no vault content
\* whatever address is opened, and the landing page does not resume a vault;
\* right after handleLock the route is the landing page.
C21_LockedUntilHashedAgain ==
    sinceLock # "open" =>
        /\ sessionStorage = EmptySession
        /\ localStorage = EmptyLocal
        /\ route.page # "vault"
        /\ vaultPage = None
        /\ sinceLock = "locked" => route = Landing /\ landing # None

C21_Witness ==
    /\ build = "part_009"
    /\ sinceLock = "away"
    /\ route = Landing
    /\ Len(attempts) = 1
    /\ attempts[1].outcome = "navigated"
    /\ attempts[1].remember
    /\ attempts[1].after.localStorage.vault_hash_persistent = Str(HashA)

\* C22 as claimed: a handleAccessVault call on a phrase that does not have
\* exactly 12 words ends with an error message shown, the stored hashes and
\* the route as they were, no digest computed and the loading flag false.
\* Violated: the LandingPage that has no word count of its own lets the
\* rejection of hashSeedPhrase leave the handler, and nothing is shown.
C22_WordCountFailureSurfaced ==
    \A k \in 1..Len(attempts) :
        (/\ attempts[k].words # SeedWords
         /\ attempts[k].outcome # "pending"
         /\ attempts[k].mounted) =>
            /\ attempts[k].message # ""
            /\ attempts[k].after = attempts[k].before
            /\ ~attempts[k].digest
            /\ ~attempts[k].isLoading

\* C22 (supporting): whichever version runs, a call on a phrase that does
\* not have exactly 12 words computes no digest, leaves the loading flag
\* false, and changes neither the stored hashes nor, unless the phrase is an
\* existing share key, the route.
C22_WordCountFailureChangesNothing ==
    \A k \in 1..Len(attempts) :
        (/\ attempts[k].words # SeedWords
         /\ attempts[k].outcome # "pending"
         /\ attempts[k].mounted) =>
            /\ ~attempts[k].digest
            /\ ~attempts[k].isLoading
            /\ attempts[k].after.sessionStorage = attempts[k].before.sessionStorage
            /\ attempts[k].after.localStorage = attempts[k].before.localStorage
            /\ ~HEX_64(trim(attempts[k].input)) => attempts[k].after = attempts[k].before

\* C27 as claimed: VaultPage makes a client and shows vault content for the
\* hash of the address only when the stored vault hash is that hash.
\* Violated: the page tests that some hash is stored, not which one.
C27_VaultPageOnlyForStoredHash ==
    (vaultPage # None /\ (vaultPage.content \/ vaultPage.db # None)) =>
        storedHash(build, sessionStorage, localStorage) = Str(vaultPage.hash)

\* C27 (supporting): VaultPage shows vault content only while some vault hash
\* is stored.
C27_ContentNeedsAStoredHash ==
    vaultPage # None => truthy(storedHash(build, sessionStorage, localStorage))

=============================================================================
